---- MODULE Spec2Model ----
(***************************************************************************)
(* State-machine model of db/client.cpp: the Client registry, the          *)
(* thread-local Client handle, the CurOp chain with kill / killAll, the    *)
(* registry-wide traversals, the Context scope stack and ReadContext; and  *)
(* of util/concurrency/mutex.h: StaticObserver, mutex, SimpleMutex and     *)
(* RecursiveMutex in the pthread, _WIN32 and _WIN32 _DEBUG builds.         *)
(*                                                                         *)
(* The specifications share the variables:                                 *)
(*   Spec         threads running initThread, CurOp construction and       *)
(*                destruction, shutdown() and ~Client against the registry;*)
(*   SpecKill     kill(i) among these;                                     *)
(*   SpecKillAll  killAll() among kill(i);                                 *)
(*   SpecLife     kill(i) among the whole lifecycle, global shutdown and   *)
(*                ~Client included;                                        *)
(*   SpecCtx      one Client constructing and destroying Contexts;         *)
(*   SpecRC       threads constructing ReadContexts under the db lock;     *)
(*   SpecTrav     kill(i), recommendedYieldMicros, getActiveClientCount    *)
(*                and the client list among initThread and shutdown();     *)
(*   SpecRM       threads taking scoped_locks on one RecursiveMutex;       *)
(*   SpecMutex    threads locking and unlocking one SimpleMutex and one    *)
(*                mutex, and the destructors around ~StaticObserver;       *)
(*   SpecTry      threads in mutex::try_lock and mutex::scoped_lock on one *)
(*                mutex while the clock runs, under weak fairness.         *)
(***************************************************************************)
EXTENDS Integers, Sequences, FiniteSets, TLC

\* ---------------------------------------------------------------- bounds
MaxDepth == 2
MaxOps == 3
MaxShutdownCalls == 2
MaxCtxDepth == 2
MaxScopes == 2
MaxLocks == 2
MaxSec == 2

\* Two worker threads, and as many Client addresses as threads: a thread owns
\* at most one Client in its lifetime.
Threads == {1, 2}
ClientIds == {1, 2}

VARIABLES
    \* ---- registry, thread-local handle, Client fields
    pc,             \* pc[t]: where thread t stands in the handler it runs;
                    \*   "run": between operations; "stopped": shutdown() has
                    \*   returned and the thread is ending
    currentClient,  \* currentClient[t]: the thread-local Client* (0: none)
    thisClient,     \* thisClient[t]: the local `c` of initThread / `this`
    clients,        \* Client::clients, the registry
    clientsMutex,   \* Client::clientsMutex: 0 free, else the holding thread
    life,           \* life[c]: "none" | "constructing" | "live" | "destroyed"
    _shutdown,      \* Client::_shutdown
    _curOp,         \* _curOp[c]: the CurOp chain of Client c, root first;
                    \*   the Client's _curOp pointer is its last element and
                    \*   the parent (_wrapped) of position p is position p-1
    _nextOpNum,     \* CurOp::_nextOpNum
    _globalKill,    \* KillCurrentOp::_globalKill
    inShutdown,     \* the process-wide inShutdown() flag
    syncThread,     \* Client::syncThread (0: none)
    globalScriptEngine, \* whether a script engine exists
    jsInterrupts,   \* the last request made to the script engine
    killArg,        \* kill(i): i
    killIter,       \* kill: the last registry element visited (iterator j)
    killK,          \* kill: the matched CurOp <<client, position>>
    found,          \* kill: found
    \* ---- history (not program state)
    assigned,       \* every operation number, in order of assignment
    killSnap,       \* killSnap[t]: _curOp when kill took the registry mutex
    shutdownsDone,  \* shutdownsDone[c]: completed shutdown() calls
    shutdownRet,    \* shutdownRet[c]: what the last completed shutdown() call
                    \*   returned ("none": no call yet)
    killAllCalled,  \* killAll() has run
    killAllTick,    \* flips at every killAll() call
    trav,           \* trav[t]: the registry traversal thread t is running
                    \*   (recommendedYieldMicros, getActiveClientCount, the
                    \*   client list): its iterator, counters and result
    \* ---- Context
    _context,       \* _context[c]: Client::_context, the current Context (0: null)
    ctxs,           \* ctxs[c]: the live Contexts of Client c, outermost first;
                    \*   a Context is named by its position (its stack slot)
    dbs,            \* the databases dbHolder holds open
    ctxErr,         \* ctxErr[c]: how the last Context / ReadContext construction
                    \*   ended: "none", or what it threw
    \* ---- the db lock and ReadContext
    lockState,      \* lockState[t]: dbMutex.getState() of thread t
    dbWriter,       \* the thread holding dbMutex exclusively (0: none)
    dbReaders,      \* the threads holding dbMutex shared
    scopes,         \* scopes[t]: the lock scopes thread t has open, outermost
                    \*   first: "readlock", "writelock", "ReadContext"
    rcNs,           \* ReadContext(ns, path, doauth): ns
    rcAuth,         \* ReadContext: doauth
    rcX,            \* ReadContext: x, once the lookup has found no database
                    \*   (0 until then)
    \* ---- history (not program state)
    ctxCall,        \* ctxCall[c]: the last Context construction or destruction
    rcTrace,        \* rcTrace[t]: what the running ReadContext constructor did
    \* ---- mutex.h
    build,          \* the build: "pthread", "win32" or "win32_DEBUG"
    _destroyingStatics, \* StaticObserver::_destroyingStatics
    sm_lock,        \* SimpleMutex: the thread owning _lock / _cs (0: free,
                    \*   -1: the critical section left by a thread that was
                    \*   not in it)
    sm_depth,       \* SimpleMutex: how deep its owner is in _cs
    _nlocksByMe,    \* SimpleMutex::_nlocksByMe of each thread (_DEBUG)
    sm_native,      \* SimpleMutex: its native lock, "live" or "destroyed"
    sm_alive,       \* SimpleMutex: ~SimpleMutex has not run
    mx_lock,        \* mongo::mutex: the thread owning *_m (0: free)
    mx_native,      \* mongo::mutex: *_m, "live" or "destroyed"
    mx_alive,       \* mongo::mutex: ~mutex has not run
    nLocksByMe,     \* RecursiveMutex::n of each thread
    \* ---- history (not program state)
    mtxCall,        \* mtxCall[t]: the last lock or unlock of thread t
    dtorSawFlag,    \* dtorSawFlag[o]: _destroyingStatics when the destructor
                    \*   of object o ran
    \* ---- mutex::try_lock
    now,            \* the time boost::xtime_get reads, an xtime [sec, nsec]
    deadline        \* deadline[t]: the xtime thread t's try_lock waits until

regVars == <<pc, currentClient, thisClient, clients, clientsMutex, life,
             _shutdown, _curOp, _nextOpNum, _globalKill, inShutdown,
             syncThread, globalScriptEngine, jsInterrupts, killArg, killIter,
             killK, found, assigned, killSnap, shutdownsDone, shutdownRet,
             killAllCalled,
             killAllTick>>

killVars == <<killArg, killIter, killK, found, killSnap>>
flagVars == <<_globalKill, inShutdown, syncThread, globalScriptEngine,
              jsInterrupts, killAllCalled, killAllTick>>
clientVars == <<life, _shutdown, shutdownsDone, shutdownRet>>
opVars == <<_curOp, _nextOpNum, assigned>>

ctxVars == <<_context, ctxs, dbs, ctxErr, ctxCall>>
rcVars == <<lockState, dbWriter, dbReaders, scopes, rcNs, rcAuth, rcX,
           rcTrace>>

smVars == <<sm_lock, sm_depth, _nlocksByMe>>
timeVars == <<now, deadline>>
mtxVars == <<build, _destroyingStatics, smVars, sm_native, sm_alive, mx_lock,
            mx_native, mx_alive, nLocksByMe, mtxCall, dtorSawFlag, timeVars>>

vars == <<regVars, trav, ctxVars, rcVars, mtxVars>>

\* ------------------------------------------------------------- helpers

\* A fatal assertion ends the process: no thread takes another step.
Aborted == \E t \in Threads : pc[t] = "fatal"

\* operator new: an address not in use.
NewClient ==
    CHOOSE c \in ClientIds :
        /\ life[c] = "none"
        /\ \A d \in ClientIds : life[d] = "none" => c <= d

\* _opNum = _nextOpNum++ : the number handed out and the counter afterwards.
OpNumAssigned(n) == n
NextOpNumStuck(n) == n
NextOpNumAfter(n) == n + 1

NewCurOp(n) == [opNum |-> OpNumAssigned(n), killed |-> FALSE]

\* clients.insert(this)
RegistryInsertNothing(S, c) == S
RegistryInsert(S, c) == S \cup {c}

\* clients.erase(this)
RegistryEraseAll(S, c) == {}
RegistryErase(S, c) == S \ {c}

\* set<Client*> iteration: the element after `after` in pointer order (0: end).
NextClient(after) ==
    IF \E c \in clients : c > after
    THEN CHOOSE c \in clients : c > after /\ \A d \in clients : d > after => c <= d
    ELSE 0

\* for( CurOp *k = (*j)->curop(); !found && k; k = k->parent() ) if ( k->opNum() == i )
\* the position of the first CurOp numbered i from position k outwards (0: none).
RECURSIVE FindFrom(_, _, _)
FindFrom(chain, k, i) ==
    IF k = 0 THEN 0
    ELSE IF chain[k].opNum = i THEN k
    ELSE FindFrom(chain, k - 1, i)

\* CurOp::kill()
KillOne(chain, p) == [chain EXCEPT ![p].killed = TRUE]

\* for( CurOp *l = (*j)->curop(); l != k; l = l->parent() ) l->kill();
RECURSIVE KillLoop(_, _, _)
KillLoopNone(chain, l, k) == chain
KillLoopAll(chain, l, k) == [p \in 1..Len(chain) |-> [chain[p] EXCEPT !.killed = TRUE]]
KillLoop(chain, l, k) ==
    IF l = k THEN chain
    ELSE KillLoop(KillOne(chain, l), l - 1, k)

\* KillCurrentOp::interruptJs( AtomicUInt *op ): op is <<>> for the null pointer
\* and <<i>> for &i; a request <<>> is interruptAll(), <<i>> is interrupt(i).
NoRequest == [call |-> "none", op |-> 0]
InterruptJs(reqs, op) ==
    IF ~globalScriptEngine THEN reqs
    ELSE IF op = <<>> THEN [call |-> "interruptAll", op |-> 0]
    ELSE [call |-> "interrupt", op |-> op[1]]

\* killAll: _globalKill = true
GlobalKillUnset(g) == g
GlobalKillSet(g) == TRUE

\* checkForInterruptNoAssert for the Client c of the calling thread
CheckForInterruptNoAssert(c) ==
    \/ _globalKill
    \/ (Len(_curOp[c]) > 0 /\ _curOp[c][Len(_curOp[c])].killed)

\* ~Client: if ( ! _shutdown ) clients.erase(this)
DtorEraseNever(S, c, sd) == S
DtorErase(S, c, sd) == IF ~sd THEN RegistryErase(S, c) ELSE S

\* no traversal: kind "none"; iter is the Client last visited (0: none yet),
\* n, w, r the counters while the traversal runs, ret the value it returned
\* (-1: none); and, as history of a recommendedYieldMicros, how many of the
\* Clients visited were waiting for a lock of type > 0 (sawW) and of type
\* <= 0 (sawR)
NoTrav == [kind |-> "none", iter |-> 0, n |-> 0, w |-> 0, r |-> 0, ret |-> -1,
           sawW |-> 0, sawR |-> 0]

NoCall == [kind |-> "none", ctor |-> "none", before |-> 0, old |-> 0,
           doauth |-> FALSE, authorized |-> FALSE, op |-> "dbQuery",
           versionOk |-> TRUE, entered |-> FALSE]

\* ---------------------------------------------------------------- Init

InitReg ==
    /\ pc = [t \in Threads |-> "idle"]
    /\ currentClient = [t \in Threads |-> 0]
    /\ thisClient = [t \in Threads |-> 0]
    /\ clients = {}
    /\ clientsMutex = 0
    /\ life = [c \in ClientIds |-> "none"]
    /\ _shutdown = [c \in ClientIds |-> FALSE]
    /\ _curOp = [c \in ClientIds |-> <<>>]
    /\ _nextOpNum = 0
    /\ _globalKill = FALSE
    /\ inShutdown = FALSE
    /\ syncThread = 0
    /\ globalScriptEngine \in BOOLEAN
    /\ jsInterrupts = NoRequest
    /\ killArg = [t \in Threads |-> 0]
    /\ killIter = [t \in Threads |-> 0]
    /\ killK = [t \in Threads |-> <<0, 0>>]
    /\ found = [t \in Threads |-> FALSE]
    /\ assigned = <<>>
    /\ killSnap = [t \in Threads |-> <<>>]
    /\ shutdownsDone = [c \in ClientIds |-> 0]
    /\ shutdownRet = [c \in ClientIds |-> "none"]
    /\ killAllCalled = FALSE
    /\ killAllTick = FALSE
    /\ trav = [t \in Threads |-> NoTrav]

\* no Context, no open database, dbMutex free
InitCtx ==
    /\ _context = [c \in ClientIds |-> 0]
    /\ ctxs = [c \in ClientIds |-> <<>>]
    /\ dbs = {}
    /\ ctxErr = [c \in ClientIds |-> "none"]
    /\ ctxCall = [c \in ClientIds |-> NoCall]
    /\ lockState = [t \in Threads |-> 0]
    /\ dbWriter = 0
    /\ dbReaders = {}
    /\ scopes = [t \in Threads |-> <<>>]
    /\ rcNs = [t \in Threads |-> 0]
    /\ rcAuth = [t \in Threads |-> FALSE]
    /\ rcX = [t \in Threads |-> 0]
    /\ rcTrace = [t \in Threads |-> <<>>]

\* what a thread last did to a lock
NoMtxCall == [op |-> "none", held |-> FALSE, res |-> "none", deep |-> 0]

Builds == {"pthread", "win32", "win32_DEBUG"}

\* boost::xtime: seconds and nanoseconds; the time at the start
XTime(sec, nsec) == [sec |-> sec, nsec |-> nsec]
StartTime == XTime(0, 750000000)
NoTime == XTime(-1, 0)
MutexKinds == {"mutex", "SimpleMutex"}

\* the mutexes constructed and free, the statics not yet being destroyed
InitMtx ==
    /\ build \in Builds
    /\ _destroyingStatics = FALSE
    /\ sm_lock = 0
    /\ sm_depth = 0
    /\ _nlocksByMe = [t \in Threads |-> 0]
    /\ sm_native = "live"
    /\ sm_alive = TRUE
    /\ mx_lock = 0
    /\ mx_native = "live"
    /\ mx_alive = TRUE
    /\ nLocksByMe = [t \in Threads |-> 0]
    /\ mtxCall = [t \in Threads |-> NoMtxCall]
    /\ dtorSawFlag = [o \in MutexKinds |-> FALSE]
    /\ now = StartTime
    /\ deadline = [t \in Threads |-> NoTime]

\* the build the registry and Context specifications run
InitPthread == InitMtx /\ build = "pthread"

Init == InitReg /\ InitCtx /\ InitPthread

\* ------------------------------------------------- initThread, Client()

\* assert( currentClient.get() == 0 ), on the caller's slot
SlotFreeAlways(cur) == TRUE
SlotFree(cur) == cur = 0

\* initThread: assert( currentClient.get() == 0 )
InitThread(t) ==
    /\ ~Aborted
    /\ pc[t] \in {"idle", "run"}
    /\ pc' = [pc EXCEPT ![t] = IF SlotFree(currentClient[t]) THEN "newClient"
                                ELSE "fatal"]
    /\ UNCHANGED <<trav, mtxVars, ctxVars, rcVars, currentClient, thisClient, clients, clientsMutex,
                   clientVars, opVars, flagVars, killVars>>

\* new Client(desc, mp): the member initialisers and _curOp = new CurOp( this )
ClientCtor(t) ==
    /\ ~Aborted
    /\ pc[t] = "newClient"
    /\ _nextOpNum < MaxOps
    /\ LET c == NewClient IN
        /\ life' = [life EXCEPT ![c] = "constructing"]
        /\ _shutdown' = [_shutdown EXCEPT ![c] = FALSE]
        /\ _curOp' = [_curOp EXCEPT ![c] = <<NewCurOp(_nextOpNum)>>]
        /\ assigned' = Append(assigned, OpNumAssigned(_nextOpNum))
        /\ _nextOpNum' = NextOpNumAfter(_nextOpNum)
        /\ thisClient' = [thisClient EXCEPT ![t] = c]
    /\ pc' = [pc EXCEPT ![t] = "ctorLock"]
    /\ UNCHANGED <<trav, mtxVars, ctxVars, rcVars, currentClient, clients, clientsMutex, shutdownsDone, shutdownRet,
                   flagVars, killVars>>

\* Client(): scoped_lock bl(clientsMutex)
CtorLock(t) ==
    /\ ~Aborted
    /\ pc[t] = "ctorLock"
    /\ clientsMutex = 0
    /\ clientsMutex' = t
    /\ pc' = [pc EXCEPT ![t] = "ctorInsert"]
    /\ UNCHANGED <<trav, mtxVars, ctxVars, rcVars, currentClient, thisClient, clients, clientVars, opVars,
                   flagVars, killVars>>

\* Client(): clients.insert(this), and the scoped_lock's release
CtorInsert(t) ==
    /\ ~Aborted
    /\ pc[t] = "ctorInsert"
    /\ clients' = RegistryInsert(clients, thisClient[t])
    /\ clientsMutex' = 0
    /\ life' = [life EXCEPT ![thisClient[t]] = "live"]
    /\ pc' = [pc EXCEPT ![t] = "setTls"]
    /\ UNCHANGED <<trav, mtxVars, ctxVars, rcVars, currentClient, thisClient, _shutdown, shutdownsDone, shutdownRet,
                   opVars, flagVars, killVars>>

\* initThread: currentClient.reset(c)
SetTls(t) ==
    /\ ~Aborted
    /\ pc[t] = "setTls"
    /\ currentClient' = [currentClient EXCEPT ![t] = thisClient[t]]
    /\ pc' = [pc EXCEPT ![t] = "run"]
    /\ UNCHANGED <<trav, mtxVars, ctxVars, rcVars, thisClient, clients, clientsMutex, clientVars, opVars,
                   flagVars, killVars>>

\* ------------------------------------------------------ CurOp, ~CurOp

\* CurOp( client, client->curop() ): a nested operation; _opNum = _nextOpNum++,
\* _wrapped = the Client's current CurOp, _client->_curOp = this.
CurOpCtor(t) ==
    /\ ~Aborted
    /\ pc[t] = "run"
    /\ _nextOpNum < MaxOps
    /\ LET c == currentClient[t] IN
        /\ Len(_curOp[c]) < MaxDepth
        /\ _curOp' = [_curOp EXCEPT ![c] = Append(@, NewCurOp(_nextOpNum))]
    /\ assigned' = Append(assigned, OpNumAssigned(_nextOpNum))
    /\ _nextOpNum' = NextOpNumAfter(_nextOpNum)
    /\ UNCHANGED <<trav, mtxVars, ctxVars, rcVars, pc, currentClient, thisClient, clients, clientsMutex,
                   clientVars, flagVars, killVars>>

\* the nested operation ends: ~CurOp runs on the Client's current CurOp
CurOpDtor(t) ==
    /\ ~Aborted
    /\ pc[t] = "run"
    /\ Len(_curOp[currentClient[t]]) > 1
    /\ pc' = [pc EXCEPT ![t] = "curopLock"]
    /\ UNCHANGED <<trav, mtxVars, ctxVars, rcVars, currentClient, thisClient, clients, clientsMutex,
                   clientVars, opVars, flagVars, killVars>>

\* ~CurOp: if ( _wrapped ) scoped_lock bl(Client::clientsMutex), reached from the
\* end of a nested operation or from ~Client's delete _curOp
CurOpDtorLock(t) ==
    /\ ~Aborted
    /\ pc[t] \in {"curopLock", "dtorCurOpLock"}
    /\ clientsMutex = 0
    /\ clientsMutex' = t
    /\ pc' = [pc EXCEPT ![t] = IF pc[t] = "curopLock" THEN "curopRestore"
                                ELSE "dtorCurOpRestore"]
    /\ UNCHANGED <<trav, mtxVars, ctxVars, rcVars, currentClient, thisClient, clients, clientVars, opVars,
                   flagVars, killVars>>

\* ~CurOp: _client->_curOp = _wrapped, the scoped_lock's release, _client = 0
CurOpDtorRestore(t) ==
    /\ ~Aborted
    /\ pc[t] \in {"curopRestore", "dtorCurOpRestore"}
    /\ LET c == thisClient[t] IN
        /\ _curOp' = [_curOp EXCEPT ![c] = SubSeq(@, 1, Len(@) - 1)]
        /\ clientsMutex' = 0
        /\ IF pc[t] = "curopRestore"
           THEN /\ pc' = [pc EXCEPT ![t] = "run"]
                /\ life' = life
           ELSE \* back in ~Client, whose own scoped_lock is released next
                /\ pc' = [pc EXCEPT ![t] = "done"]
                /\ life' = [life EXCEPT ![c] = "destroyed"]
    /\ UNCHANGED <<trav, mtxVars, ctxVars, rcVars, currentClient, thisClient, clients, _shutdown,
                   shutdownsDone, shutdownRet, _nextOpNum, assigned, flagVars, killVars>>

\* ------------------------------------------------------ kill, killAll

\* kill(i): bool found = false; scoped_lock l( Client::clientsMutex );
\* j = Client::clients.begin()
KillLock(t, i) ==
    /\ ~Aborted
    /\ pc[t] = "run"
    /\ clientsMutex = 0
    /\ clientsMutex' = t
    /\ killArg' = [killArg EXCEPT ![t] = i]
    /\ found' = [found EXCEPT ![t] = FALSE]
    /\ killIter' = [killIter EXCEPT ![t] = 0]
    /\ killK' = [killK EXCEPT ![t] = <<0, 0>>]
    /\ killSnap' = [killSnap EXCEPT ![t] = _curOp]
    /\ pc' = [pc EXCEPT ![t] = IF NextClient(0) = 0 THEN "killUnlock" ELSE "killScan"]
    /\ UNCHANGED <<trav, mtxVars, ctxVars, rcVars, currentClient, thisClient, clients, clientVars, opVars,
                   flagVars>>

\* kill: the inner loop over Client *j's chain, up to and including k->kill()
KillScan(t) ==
    /\ ~Aborted
    /\ pc[t] = "killScan"
    /\ LET j == NextClient(killIter[t])
           k == FindFrom(_curOp[j], Len(_curOp[j]), killArg[t])
       IN IF k # 0
          THEN /\ _curOp' = [_curOp EXCEPT ![j] = KillOne(@, k)]
               /\ killK' = [killK EXCEPT ![t] = <<j, k>>]
               /\ killIter' = killIter
               /\ pc' = [pc EXCEPT ![t] = "killMark"]
          ELSE /\ killIter' = [killIter EXCEPT ![t] = j]
               /\ pc' = [pc EXCEPT ![t] = IF NextClient(j) = 0 THEN "killUnlock"
                                           ELSE "killScan"]
               /\ UNCHANGED <<_curOp, killK>>
    /\ UNCHANGED <<trav, mtxVars, ctxVars, rcVars, currentClient, thisClient, clients, clientsMutex,
                   clientVars, _nextOpNum, assigned, flagVars, killArg, found,
                   killSnap>>

\* kill: the loop from (*j)->curop() to k, and found = true
KillMark(t) ==
    /\ ~Aborted
    /\ pc[t] = "killMark"
    /\ LET j == killK[t][1]
           k == killK[t][2]
       IN _curOp' = [_curOp EXCEPT ![j] = KillLoop(@, Len(@), k)]
    /\ found' = [found EXCEPT ![t] = TRUE]
    /\ pc' = [pc EXCEPT ![t] = "killUnlock"]
    /\ UNCHANGED <<trav, mtxVars, ctxVars, rcVars, currentClient, thisClient, clients, clientsMutex,
                   clientVars, _nextOpNum, assigned, flagVars, killArg,
                   killIter, killK, killSnap>>

\* kill: if ( found ) interruptJs( &i )
InterruptAlways(f) == TRUE
InterruptWanted(f) == f

\* kill: the scoped_lock's release
KillUnlock(t) ==
    /\ ~Aborted
    /\ pc[t] = "killUnlock"
    /\ clientsMutex' = 0
    /\ pc' = [pc EXCEPT ![t] = IF InterruptWanted(found[t]) THEN "killInterrupt"
                                ELSE "run"]
    /\ killIter' = [killIter EXCEPT ![t] = 0]
    /\ killK' = [killK EXCEPT ![t] = <<0, 0>>]
    /\ killSnap' = [killSnap EXCEPT ![t] = <<>>]
    /\ killArg' = [killArg EXCEPT ![t] = IF InterruptWanted(found[t]) THEN @
                                          ELSE 0]
    /\ found' = [found EXCEPT ![t] = FALSE]
    /\ UNCHANGED <<trav, mtxVars, ctxVars, rcVars, currentClient, thisClient, clients, clientVars, opVars,
                   flagVars>>

\* kill: if ( found ) interruptJs( &i )
KillInterrupt(t) ==
    /\ ~Aborted
    /\ pc[t] = "killInterrupt"
    /\ jsInterrupts' = InterruptJs(jsInterrupts, <<killArg[t]>>)
    /\ pc' = [pc EXCEPT ![t] = "run"]
    /\ killArg' = [killArg EXCEPT ![t] = 0]
    /\ UNCHANGED <<trav, mtxVars, ctxVars, rcVars, currentClient, thisClient, clients, clientsMutex,
                   clientVars, opVars, _globalKill, inShutdown, syncThread,
                   globalScriptEngine, killAllCalled, killAllTick, killIter,
                   killK, found, killSnap>>

\* killAll(): _globalKill = true; interruptJs( 0 )
KillAll(t) ==
    /\ ~Aborted
    /\ pc[t] = "run"
    /\ _globalKill' = GlobalKillSet(_globalKill)
    /\ jsInterrupts' = InterruptJs(jsInterrupts, <<>>)
    /\ killAllCalled' = TRUE
    /\ killAllTick' = ~killAllTick
    /\ UNCHANGED <<trav, mtxVars, ctxVars, rcVars, pc, currentClient, thisClient, clients, clientsMutex,
                   clientVars, opVars, inShutdown, syncThread,
                   globalScriptEngine, killVars>>

\* ------------------------------------------------ shutdown(), ~Client

\* inShutdown(), as shutdown() and ~Client test it: the process-wide flag
InShutdownNever(flag) == FALSE
InShutdown(flag) == flag

\* shutdown(): _shutdown = true; if ( inShutdown() ) return false;
Shutdown(t) ==
    /\ ~Aborted
    /\ pc[t] \in {"run", "stopped"}
    /\ LET c == currentClient[t] IN
        /\ shutdownsDone[c] < MaxShutdownCalls
        /\ _shutdown' = [_shutdown EXCEPT ![c] = TRUE]
        /\ IF InShutdown(inShutdown)
           THEN /\ shutdownsDone' = [shutdownsDone EXCEPT ![c] = @ + 1]
                /\ shutdownRet' = [shutdownRet EXCEPT ![c] = "false"]
                /\ pc' = [pc EXCEPT ![t] = "stopped"]
           ELSE /\ shutdownsDone' = shutdownsDone
                /\ shutdownRet' = shutdownRet
                /\ pc' = [pc EXCEPT ![t] = "sdLock"]
    /\ UNCHANGED <<trav, mtxVars, ctxVars, rcVars, currentClient, thisClient, clients, clientsMutex, life,
                   opVars, flagVars, killVars>>

\* Client::iAmSyncThread(): the replication-apply thread marks its Client
IAmSyncThread(t) ==
    /\ ~Aborted
    /\ pc[t] = "run"
    /\ syncThread = 0
    /\ syncThread' = currentClient[t]
    /\ UNCHANGED <<pc, trav, mtxVars, ctxVars, rcVars, currentClient, thisClient,
                   clients, clientsMutex, clientVars, opVars, _globalKill,
                   inShutdown, globalScriptEngine, jsInterrupts, killAllCalled,
                   killAllTick, killVars>>

\* shutdown(): scoped_lock bl(clientsMutex)
ShutdownLock(t) ==
    /\ ~Aborted
    /\ pc[t] = "sdLock"
    /\ clientsMutex = 0
    /\ clientsMutex' = t
    /\ pc' = [pc EXCEPT ![t] = "sdErase"]
    /\ UNCHANGED <<trav, mtxVars, ctxVars, rcVars, currentClient, thisClient, clients, clientVars, opVars,
                   flagVars, killVars>>

\* shutdown(): clients.erase(this); if ( isSyncThread() ) syncThread = 0;
\* the scoped_lock's release; return false
ShutdownErase(t) ==
    /\ ~Aborted
    /\ pc[t] = "sdErase"
    /\ LET c == currentClient[t] IN
        /\ clients' = RegistryErase(clients, c)
        /\ syncThread' = IF syncThread = c THEN 0 ELSE syncThread
        /\ shutdownsDone' = [shutdownsDone EXCEPT ![c] = @ + 1]
        /\ shutdownRet' = [shutdownRet EXCEPT ![c] = "false"]
    /\ clientsMutex' = 0
    /\ pc' = [pc EXCEPT ![t] = "stopped"]
    /\ UNCHANGED <<trav, mtxVars, ctxVars, rcVars, currentClient, thisClient, life, _shutdown, opVars,
                   _globalKill, inShutdown, globalScriptEngine, jsInterrupts,
                   killAllCalled, killAllTick, killVars>>

\* ~Client, run when the thread ends: _god = 0, the two log lines, and
\* if ( ! inShutdown() ); in shutdown nothing is cleaned up
ClientDtor(t) ==
    /\ ~Aborted
    /\ pc[t] \in {"run", "stopped"}
    /\ IF InShutdown(inShutdown)
       THEN /\ life' = [life EXCEPT ![currentClient[t]] = "destroyed"]
            /\ pc' = [pc EXCEPT ![t] = "done"]
       ELSE /\ life' = life
            /\ pc' = [pc EXCEPT ![t] = "dtorLock"]
    /\ UNCHANGED <<trav, mtxVars, ctxVars, rcVars, currentClient, thisClient, clients, clientsMutex,
                   _shutdown, shutdownsDone, shutdownRet, opVars, flagVars, killVars>>

\* ~Client: scoped_lock bl(clientsMutex)
DtorLock(t) ==
    /\ ~Aborted
    /\ pc[t] = "dtorLock"
    /\ clientsMutex = 0
    /\ clientsMutex' = t
    /\ pc' = [pc EXCEPT ![t] = "dtorBody"]
    /\ UNCHANGED <<trav, mtxVars, ctxVars, rcVars, currentClient, thisClient, clients, clientVars, opVars,
                   flagVars, killVars>>

\* ~Client: if ( ! _shutdown ) clients.erase(this); delete _curOp; and, when
\* ~CurOp returns, the scoped_lock's release. ~CurOp of a CurOp with a parent
\* first takes clientsMutex itself (CurOpDtorLock).
DtorBody(t) ==
    /\ ~Aborted
    /\ pc[t] = "dtorBody"
    /\ LET c == currentClient[t] IN
        /\ clients' = DtorErase(clients, c, _shutdown[c])
        /\ IF Len(_curOp[c]) > 1
           THEN /\ pc' = [pc EXCEPT ![t] = "dtorCurOpLock"]
                /\ UNCHANGED <<_curOp, clientsMutex, life>>
           ELSE /\ _curOp' = [_curOp EXCEPT ![c] = <<>>]
                /\ clientsMutex' = 0
                /\ life' = [life EXCEPT ![c] = "destroyed"]
                /\ pc' = [pc EXCEPT ![t] = "done"]
    /\ UNCHANGED <<trav, mtxVars, ctxVars, rcVars, currentClient, thisClient, _shutdown, shutdownsDone, shutdownRet,
                   _nextOpNum, assigned, flagVars, killVars>>

\* the process enters global shutdown: inShutdown() is true from here on
GlobalShutdown ==
    /\ ~Aborted
    /\ ~inShutdown
    /\ inShutdown' = TRUE
    /\ UNCHANGED <<trav, mtxVars, ctxVars, rcVars, pc, currentClient, thisClient, clients, clientsMutex,
                   clientVars, opVars, _globalKill, syncThread,
                   globalScriptEngine, jsInterrupts, killAllCalled, killAllTick,
                   killVars>>

\* ---------------------------------------------------------------- Spec

\* The Client lifecycle against the registry.
Next ==
    \/ \E t \in Threads :
        \/ InitThread(t)
        \/ ClientCtor(t)
        \/ CtorLock(t)
        \/ CtorInsert(t)
        \/ SetTls(t)
        \/ CurOpCtor(t)
        \/ CurOpDtor(t)
        \/ CurOpDtorLock(t)
        \/ CurOpDtorRestore(t)
        \/ IAmSyncThread(t)
        \/ Shutdown(t)
        \/ ShutdownLock(t)
        \/ ShutdownErase(t)
        \/ ClientDtor(t)
        \/ DtorLock(t)
        \/ DtorBody(t)
    \/ GlobalShutdown

Spec == Init /\ [][Next]_vars

\* kill(i) against threads that start, nest operations and call shutdown().
KillIds == 0..(MaxOps - 1)

NextKill ==
    \E t \in Threads :
        \/ (pc[t] = "idle" /\ InitThread(t))
        \/ ClientCtor(t)
        \/ CtorLock(t)
        \/ CtorInsert(t)
        \/ SetTls(t)
        \/ CurOpCtor(t)
        \/ CurOpDtor(t)
        \/ CurOpDtorLock(t)
        \/ CurOpDtorRestore(t)
        \/ \E i \in KillIds : KillLock(t, i)
        \/ KillScan(t)
        \/ KillMark(t)
        \/ KillUnlock(t)
        \/ KillInterrupt(t)
        \/ (pc[t] = "run" /\ Shutdown(t))
        \/ ShutdownLock(t)
        \/ ShutdownErase(t)

SpecKill == Init /\ [][NextKill]_vars

\* killAll() among kill(i) and nested operations.
NextKillAll ==
    \E t \in Threads :
        \/ (pc[t] = "idle" /\ InitThread(t))
        \/ ClientCtor(t)
        \/ CtorLock(t)
        \/ CtorInsert(t)
        \/ SetTls(t)
        \/ CurOpCtor(t)
        \/ CurOpDtor(t)
        \/ CurOpDtorLock(t)
        \/ CurOpDtorRestore(t)
        \/ \E i \in KillIds : KillLock(t, i)
        \/ KillScan(t)
        \/ KillMark(t)
        \/ KillUnlock(t)
        \/ KillInterrupt(t)
        \/ KillAll(t)

SpecKillAll == Init /\ [][NextKillAll]_vars

\* kill(i) against the whole Client lifecycle: threads that start, nest
\* operations, call shutdown() and are destroyed, before and during global
\* shutdown.
NextLife ==
    \/ Next
    \/ \E t \in Threads :
        \/ \E i \in KillIds : KillLock(t, i)
        \/ KillScan(t)
        \/ KillMark(t)
        \/ KillUnlock(t)
        \/ KillInterrupt(t)

SpecLife == Init /\ [][NextLife]_vars

\* ------------------------------------------------------------ Context

\* every registry variable but pc
restVars == <<currentClient, thisClient, clients, clientsMutex, clientVars,
              opVars, flagVars, killVars>>

\* A namespace stands for its database name; a Database* is the name of an
\* open database, 0 the null pointer.
DbNames == {1, 2}

\* what _curOp->getOp() can return
OpKinds == {"dbQuery", "dbGetMore", "dbUpdate", "dbDelete"}

\* What a construction finds outside the Client: isAuthorizedForLock(),
\* shardVersionOk(), the running operation's kind, FileAllocator::hasFailed().
Envs == [authorized : BOOLEAN, versionOk : BOOLEAN, op : OpKinds,
         hasFailed : BOOLEAN]

\* dbMutex.getState() as a construction can find it
LockStates == {-1, 0, 1}

\* a Context; entered is history: _client->_curOp->enter( this ) has run
NewContext(old, db, jc) ==
    [_oldContext |-> old, _db |-> db, _justCreated |-> jc, entered |-> FALSE]
NoContext == NewContext(0, 0, FALSE)

\* checkNotStale(): TRUE when it returns, FALSE when it throws
CheckNotStale(env) ==
    \/ env.op \in {"dbGetMore", "dbUpdate", "dbDelete"}
    \/ env.versionOk

\* _auth: if ( isAuthorizedForLock( _db->name , lockState ) ) return;
AuthNeverFails(doauth, env) == FALSE
AuthFails(doauth, env) == doauth /\ ~env.authorized

\* _auth: _client->_context = _oldContext, before uasserted( 10057 )
AuthRestoreMissing(old, this) == this
AuthRestore(old, this) == old

\* How a constructor ends: what it threw ("none": it returned), the value it
\* leaves in _client->_context, the Context it built and the open databases.
Outcome(err, context, ctx, ndbs) ==
    [err |-> err, context |-> context, ctx |-> ctx, dbs |-> ndbs,
     entered |-> FALSE]

\* _client->_curOp->enter( this ) has run before the constructor ended with o
Enter(o) == [o EXCEPT !.entered = TRUE]
Thrown(err, context, ndbs) == Outcome(err, context, NoContext, ndbs)

\* Context( string ns , Database * db, bool doauth ): with doauth and a null
\* db, _auth reads _db->name through the null pointer.
ContextNsDb(c, db, doauth, env) ==
    LET old == _context[c]
        this == Len(ctxs[c]) + 1
    IN  IF doauth /\ db = 0 THEN Thrown("segv", this, dbs)
        ELSE IF AuthFails(doauth, env)
        THEN Thrown("10057", AuthRestore(old, this), dbs)
        ELSE Outcome("none", this, NewContext(old, db, FALSE), dbs)

\* Context( const string& ns, string path , bool doauth ) and _finishInit.
\* getOrCreate opens a database that is not open; it can under the write
\* lock only, and throws under a read lock.
ContextNsPath(c, ns, doauth, ls, env) ==
    LET old == _context[c]
        this == Len(ctxs[c]) + 1
        created == ns \notin dbs
        opened == dbs \cup {ns}
    IN  IF ls = 0 THEN Thrown("assert", old, dbs)
        ELSE IF ls > 0 /\ env.hasFailed THEN Thrown("14031", old, dbs)
        ELSE IF created /\ ls < 0 THEN Thrown("notOpen", old, dbs)
        ELSE IF ~CheckNotStale(env) THEN Thrown("stale", old, opened)
        ELSE IF AuthFails(doauth, env)
        THEN Enter(Thrown("10057", AuthRestore(old, this), opened))
        ELSE Enter(Outcome("none", this, NewContext(old, ns, created), opened))

\* Context( const string& path, const string& ns, Database *db , bool doauth )
ContextPathNsDb(c, db, doauth, env) ==
    LET old == _context[c]
        this == Len(ctxs[c]) + 1
    IN  IF db = 0 THEN Thrown("assert", old, dbs)
        ELSE IF ~CheckNotStale(env) THEN Thrown("stale", old, dbs)
        ELSE IF AuthFails(doauth, env)
        THEN Enter(Thrown("10057", AuthRestore(old, this), dbs))
        ELSE Enter(Outcome("none", this, NewContext(old, db, FALSE), dbs))

\* ~Context(): _client->_curOp->leave( this ); _client->_context = _oldContext
DtorRestore(ctx) == ctx._oldContext

\* The constructor's effect on Client c; a constructor that threw leaves no
\* object behind.
Built(c, r) ==
    /\ _context' = [_context EXCEPT ![c] = r.context]
    /\ ctxs' = [ctxs EXCEPT ![c] =
                  IF r.err = "none"
                  THEN Append(@, [r.ctx EXCEPT !.entered = r.entered])
                  ELSE @]
    /\ dbs' = r.dbs
    /\ ctxErr' = [ctxErr EXCEPT ![c] = r.err]

Constructed(c, ctor, r, doauth, env) ==
    /\ Built(c, r)
    /\ ctxCall' = [ctxCall EXCEPT ![c] =
                     [kind |-> IF r.err = "none" THEN "constructed" ELSE "failed",
                      ctor |-> ctor,
                      before |-> _context[c], old |-> _context[c],
                      doauth |-> doauth, authorized |-> env.authorized,
                      op |-> env.op, versionOk |-> env.versionOk,
                      entered |-> r.entered]]

\* a failed assertion or a read through a null pointer ends the process
AfterConstruction(t, r, next) ==
    pc' = [pc EXCEPT ![t] = IF r.err \in {"assert", "segv"} THEN "fatal" ELSE next]

CanConstruct(t) ==
    /\ ~Aborted
    /\ pc[t] = "run"
    /\ currentClient[t] # 0
    /\ Len(ctxs[currentClient[t]]) < MaxCtxDepth

ConstructNsDb(t, db, doauth, env) ==
    /\ CanConstruct(t)
    /\ LET r == ContextNsDb(currentClient[t], db, doauth, env)
       IN  Constructed(currentClient[t], "ns,db", r, doauth, env) /\ AfterConstruction(t, r, "run")
    /\ UNCHANGED <<trav, mtxVars, restVars, rcVars>>

ConstructNsPath(t, ns, doauth, ls, env) ==
    /\ CanConstruct(t)
    /\ LET r == ContextNsPath(currentClient[t], ns, doauth, ls, env)
       IN  Constructed(currentClient[t], "ns,path", r, doauth, env) /\ AfterConstruction(t, r, "run")
    /\ UNCHANGED <<trav, mtxVars, restVars, rcVars>>

ConstructPathNsDb(t, db, doauth, env) ==
    /\ CanConstruct(t)
    /\ LET r == ContextPathNsDb(currentClient[t], db, doauth, env)
       IN  Constructed(currentClient[t], "path,ns,db", r, doauth, env) /\ AfterConstruction(t, r, "run")
    /\ UNCHANGED <<trav, mtxVars, restVars, rcVars>>

\* ~Context() of the innermost live Context
ContextDtor(t) ==
    /\ ~Aborted
    /\ pc[t] = "run"
    /\ currentClient[t] # 0
    /\ ctxs[currentClient[t]] # <<>>
    /\ LET c == currentClient[t]
           top == ctxs[c][Len(ctxs[c])]
       IN  /\ _context' = [_context EXCEPT ![c] = DtorRestore(top)]
           /\ ctxs' = [ctxs EXCEPT ![c] = SubSeq(@, 1, Len(@) - 1)]
           /\ ctxCall' = [ctxCall EXCEPT ![c] =
                            [NoCall EXCEPT !.kind = "destroyed",
                                           !.before = _context[c],
                                           !.old = top._oldContext,
                                           !.entered = top.entered]]
    /\ UNCHANGED <<trav, mtxVars, regVars, dbs, ctxErr, rcVars>>

\* The threads of T have run initThread, in order: each has its Client,
\* registered, with its first CurOp.
InitClients(T) ==
    /\ pc = [t \in Threads |-> IF t \in T THEN "run" ELSE "idle"]
    /\ currentClient = [t \in Threads |-> IF t \in T THEN t ELSE 0]
    /\ thisClient = [t \in Threads |-> 0]
    /\ clients = T
    /\ clientsMutex = 0
    /\ life = [c \in ClientIds |-> IF c \in T THEN "live" ELSE "none"]
    /\ _shutdown = [c \in ClientIds |-> FALSE]
    /\ _curOp = [c \in ClientIds |-> IF c \in T THEN <<NewCurOp(c - 1)>> ELSE <<>>]
    /\ _nextOpNum = Cardinality(T)
    /\ _globalKill = FALSE
    /\ inShutdown = FALSE
    /\ syncThread = 0
    /\ globalScriptEngine = FALSE
    /\ jsInterrupts = NoRequest
    /\ killArg = [t \in Threads |-> 0]
    /\ killIter = [t \in Threads |-> 0]
    /\ killK = [t \in Threads |-> <<0, 0>>]
    /\ found = [t \in Threads |-> FALSE]
    /\ assigned = [i \in 1..Cardinality(T) |-> i - 1]
    /\ killSnap = [t \in Threads |-> <<>>]
    /\ shutdownsDone = [c \in ClientIds |-> 0]
    /\ shutdownRet = [c \in ClientIds |-> "none"]
    /\ killAllCalled = FALSE
    /\ killAllTick = FALSE
    /\ trav = [t \in Threads |-> NoTrav]

NextCtx ==
    \E t \in Threads :
        \/ \E db \in {0} \cup dbs, doauth \in BOOLEAN, env \in Envs :
              ConstructNsDb(t, db, doauth, env)
        \/ \E ns \in DbNames, doauth \in BOOLEAN, ls \in LockStates, env \in Envs :
              ConstructNsPath(t, ns, doauth, ls, env)
        \/ \E db \in {0} \cup dbs, doauth \in BOOLEAN, env \in Envs :
              ConstructPathNsDb(t, db, doauth, env)
        \/ ContextDtor(t)

\* One Client constructing and destroying Contexts in scope order.
InitOneClient == InitClients({1}) /\ InitCtx /\ InitPthread

SpecCtx == InitOneClient /\ [][NextCtx]_vars

\* ------------------------------------------------- dbMutex, ReadContext

\* dbMutex keeps a per-thread state: 0 unlocked, n > 0 write locked n deep,
\* n < 0 read locked -n deep. Only the outermost lock and unlock of a thread
\* reach the shared lock; a nested one moves the thread's own count.
LockSharedState(s) == IF s > 0 THEN s + 1 ELSE s - 1
UnlockSharedState(s) == IF s > 0 THEN s - 1 ELSE s + 1
LockState(s) == s + 1
UnlockStateKept(s) == s
UnlockState(s) == s - 1

\* readlock() returns at once on a thread that holds dbMutex, and otherwise
\* waits for the writer to leave
CanLockShared(t) == lockState[t] # 0 \/ dbWriter = 0

\* writelock() returns at once on a thread that holds it exclusively, and
\* otherwise waits for everybody to leave
CanLock(t) == lockState[t] > 0 \/ (dbWriter = 0 /\ dbReaders = {})

\* thread t's state becomes s2
DbMutexAfter(t, s2) ==
    /\ lockState' = [lockState EXCEPT ![t] = s2]
    /\ dbReaders' = IF s2 < 0 THEN dbReaders \cup {t} ELSE dbReaders \ {t}
    /\ dbWriter' = IF s2 > 0 THEN t ELSE IF dbWriter = t THEN 0 ELSE dbWriter

\* what a lock or unlock did, for rcTrace: capitals when it reached the shared
\* lock, small letters when it moved the thread's count only
SharedLocked(s) == IF s = 0 THEN "R+" ELSE "r+"
SharedUnlocked(s) == IF UnlockSharedState(s) = 0 THEN "R-" ELSE "r-"
Locked(s) == IF s = 0 THEN "W+" ELSE "w+"
Unlocked(s) == IF UnlockState(s) = 0 THEN "W-" ELSE "w-"

Idle(t) == ~Aborted /\ pc[t] = "run" /\ currentClient[t] # 0

\* readlock lk; in a scope of the caller
ReadLock(t) ==
    /\ Idle(t)
    /\ Len(scopes[t]) < MaxScopes
    /\ CanLockShared(t)
    /\ DbMutexAfter(t, LockSharedState(lockState[t]))
    /\ scopes' = [scopes EXCEPT ![t] = Append(@, "readlock")]
    /\ UNCHANGED <<trav, mtxVars, regVars, ctxVars, rcNs, rcAuth, rcX, rcTrace>>

\* writelock lk; in a scope of the caller (a read lock is not upgradeable)
WriteLock(t) ==
    /\ Idle(t)
    /\ Len(scopes[t]) < MaxScopes
    /\ lockState[t] >= 0
    /\ CanLock(t)
    /\ DbMutexAfter(t, LockState(lockState[t]))
    /\ scopes' = [scopes EXCEPT ![t] = Append(@, "writelock")]
    /\ UNCHANGED <<trav, mtxVars, regVars, ctxVars, rcNs, rcAuth, rcX, rcTrace>>

\* the innermost lock scope of the caller ends
ScopeExit(t) ==
    /\ Idle(t)
    /\ scopes[t] # <<>>
    /\ LET top == scopes[t][Len(scopes[t])]
       IN  /\ top \in {"readlock", "writelock"}
           /\ DbMutexAfter(t, IF top = "readlock"
                              THEN UnlockSharedState(lockState[t])
                              ELSE UnlockState(lockState[t]))
    /\ scopes' = [scopes EXCEPT ![t] = SubSeq(@, 1, Len(@) - 1)]
    /\ UNCHANGED <<trav, mtxVars, regVars, ctxVars, rcNs, rcAuth, rcX, rcTrace>>

\* A database is closed under the write lock, by a thread with no Context on
\* it.
CloseDatabase(t, ns) ==
    /\ Idle(t)
    /\ lockState[t] > 0
    /\ ns \in dbs
    /\ \A p \in 1..Len(ctxs[currentClient[t]]) : ctxs[currentClient[t]][p]._db # ns
    /\ dbs' = dbs \ {ns}
    /\ UNCHANGED <<trav, mtxVars, regVars, _context, ctxs, ctxErr, ctxCall, rcVars>>

\* ReadContext(ns, path, doauth) is called
RcBegin(t, ns, doauth) ==
    /\ Idle(t)
    /\ Len(scopes[t]) < MaxScopes
    /\ pc' = [pc EXCEPT ![t] = "rcLock"]
    /\ rcNs' = [rcNs EXCEPT ![t] = ns]
    /\ rcAuth' = [rcAuth EXCEPT ![t] = doauth]
    /\ UNCHANGED <<trav, mtxVars, restVars, ctxVars, lockState, dbWriter, dbReaders, scopes,
                   rcX, rcTrace>>

\* lk.reset( new readlock() )
RcLock(t) ==
    /\ ~Aborted
    /\ pc[t] = "rcLock"
    /\ CanLockShared(t)
    /\ DbMutexAfter(t, LockSharedState(lockState[t]))
    /\ rcTrace' = [rcTrace EXCEPT ![t] = Append(@, SharedLocked(lockState[t]))]
    /\ pc' = [pc EXCEPT ![t] = "rcGet"]
    /\ UNCHANGED <<trav, mtxVars, restVars, ctxVars, scopes, rcNs, rcAuth, rcX>>

\* if( x > 0 ) ... else if( x == -1 ) ... else
RcBranchNoNested(x) == IF x > 0 THEN "locked" ELSE "upgrade"
RcBranch(x) == IF x > 0 THEN "locked" ELSE IF x = -1 THEN "upgrade" ELSE "nested"

\* lk gives up the readlock it holds: lk.reset(0), and the destruction of the
\* member lk when an exception leaves the constructor
LkResetKept(s) == s
LkReset(s) == UnlockSharedState(s)

\* The constructor ends with its last Context construction: on success the
\* ReadContext holds lk and c; on a throw lk is released as the exception
\* leaves.
RcEnd(t, r, events) ==
    /\ Built(currentClient[t], r)
    /\ AfterConstruction(t, r, "rcDone")
    /\ IF r.err = "none"
       THEN /\ scopes' = [scopes EXCEPT ![t] = Append(@, "ReadContext")]
            /\ rcTrace' = [rcTrace EXCEPT ![t] = @ \o events]
            /\ UNCHANGED <<lockState, dbReaders, dbWriter>>
       ELSE /\ DbMutexAfter(t, LkReset(lockState[t]))
            /\ rcTrace' = [rcTrace EXCEPT ![t] =
                             @ \o <<SharedUnlocked(lockState[t])>>]
            /\ UNCHANGED scopes

\* Database *db = dbHolder().get(ns, path) and what follows under the lock
\* taken: the Context on the database found; and with none found, by
\* x = dbMutex.getState(), the Context that opens it under the write lock
\* held, or lk.reset(0), or uasserted(15928).
RcGet(t, env) ==
    /\ ~Aborted
    /\ pc[t] = "rcGet"
    /\ LET c == currentClient[t]
           ns == rcNs[t]
           x == lockState[t]
       IN  IF ns \in dbs
           THEN /\ RcEnd(t, ContextPathNsDb(c, ns, rcAuth[t], env), <<"ctx+">>)
                /\ UNCHANGED rcX
           ELSE /\ rcX' = [rcX EXCEPT ![t] = x]
                /\ CASE RcBranch(x) = "locked" ->
                          RcEnd(t, ContextNsPath(c, ns, rcAuth[t], x, env),
                                <<"open", "ctx+">>)
                     [] RcBranch(x) = "upgrade" ->
                          /\ DbMutexAfter(t, LkReset(x))
                          /\ rcTrace' = [rcTrace EXCEPT ![t] =
                                           Append(@, SharedUnlocked(x))]
                          /\ pc' = [pc EXCEPT ![t] = "rcWriteLock"]
                          /\ UNCHANGED <<_context, ctxs, dbs, ctxErr, scopes>>
                     [] RcBranch(x) = "nested" ->
                          RcEnd(t, Thrown("15928", _context[c], dbs), <<>>)
    /\ UNCHANGED <<trav, mtxVars, restVars, ctxCall, rcNs, rcAuth>>

\* writelock w; a thread that still holds a read lock gets massert 10293,
\* and the exception leaves the constructor with lk empty
RcWriteLock(t) ==
    /\ ~Aborted
    /\ pc[t] = "rcWriteLock"
    /\ IF lockState[t] < 0
       THEN /\ ctxErr' = [ctxErr EXCEPT ![currentClient[t]] = "10293"]
            /\ pc' = [pc EXCEPT ![t] = "rcDone"]
            /\ UNCHANGED <<lockState, dbReaders, dbWriter, rcTrace>>
       ELSE /\ CanLock(t)
            /\ DbMutexAfter(t, LockState(lockState[t]))
            /\ rcTrace' = [rcTrace EXCEPT ![t] = Append(@, Locked(lockState[t]))]
            /\ pc' = [pc EXCEPT ![t] = "rcCreate"]
            /\ UNCHANGED ctxErr
    /\ UNCHANGED <<trav, mtxVars, restVars, _context, ctxs, dbs, ctxCall, scopes, rcNs, rcAuth,
                   rcX>>

\* { writelock w; Context c(ns, path, doauth); } from the construction of c:
\* c opens the database and is destroyed, then w is released; if c's
\* constructor throws, w is released as the exception leaves.
RcCreate(t, env) ==
    /\ ~Aborted
    /\ pc[t] = "rcCreate"
    /\ LET c == currentClient[t]
           r == ContextNsPath(c, rcNs[t], rcAuth[t], lockState[t], env)
           opened == IF rcNs[t] \in dbs THEN <<>> ELSE <<"open">>
       IN  /\ dbs' = r.dbs
           /\ IF r.err = "none"
              THEN /\ _context' = [_context EXCEPT ![c] = DtorRestore(r.ctx)]
                   /\ rcTrace' = [rcTrace EXCEPT ![t] =
                        @ \o opened \o <<"ctx+", "ctx-", Unlocked(lockState[t])>>]
                   /\ pc' = [pc EXCEPT ![t] = "rcRelock"]
                   /\ UNCHANGED ctxErr
              ELSE /\ _context' = [_context EXCEPT ![c] = r.context]
                   /\ rcTrace' = [rcTrace EXCEPT ![t] =
                        Append(@, Unlocked(lockState[t]))]
                   /\ ctxErr' = [ctxErr EXCEPT ![c] = r.err]
                   /\ AfterConstruction(t, r, "rcDone")
    /\ DbMutexAfter(t, UnlockState(lockState[t]))
    /\ UNCHANGED <<trav, mtxVars, restVars, ctxs, ctxCall, scopes, rcNs, rcAuth, rcX>>

\* lk.reset( new readlock() ), the second one
RcRelock(t) ==
    /\ ~Aborted
    /\ pc[t] = "rcRelock"
    /\ CanLockShared(t)
    /\ DbMutexAfter(t, LockSharedState(lockState[t]))
    /\ rcTrace' = [rcTrace EXCEPT ![t] = Append(@, SharedLocked(lockState[t]))]
    /\ pc' = [pc EXCEPT ![t] = "rcContext"]
    /\ UNCHANGED <<trav, mtxVars, restVars, ctxVars, scopes, rcNs, rcAuth, rcX>>

\* c.reset( new Context(ns, path, doauth) ) under the read lock taken again
RcContext(t, env) ==
    /\ ~Aborted
    /\ pc[t] = "rcContext"
    /\ RcEnd(t, ContextNsPath(currentClient[t], rcNs[t], rcAuth[t],
                              lockState[t], env), <<"ctx+">>)
    /\ UNCHANGED <<trav, mtxVars, restVars, ctxCall, rcNs, rcAuth, rcX>>

\* the constructor has returned, or thrown and the exception has been caught;
\* the caller goes on
RcReturn(t) ==
    /\ ~Aborted
    /\ pc[t] = "rcDone"
    /\ pc' = [pc EXCEPT ![t] = "run"]
    /\ ctxErr' = [ctxErr EXCEPT ![currentClient[t]] = "none"]
    /\ rcNs' = [rcNs EXCEPT ![t] = 0]
    /\ rcAuth' = [rcAuth EXCEPT ![t] = FALSE]
    /\ rcX' = [rcX EXCEPT ![t] = 0]
    /\ rcTrace' = [rcTrace EXCEPT ![t] = <<>>]
    /\ UNCHANGED <<trav, mtxVars, restVars, _context, ctxs, dbs, ctxCall, lockState, dbWriter,
                   dbReaders, scopes>>

\* ~ReadContext(): c, then lk
ReadContextDtor(t) ==
    /\ Idle(t)
    /\ scopes[t] # <<>>
    /\ scopes[t][Len(scopes[t])] = "ReadContext"
    /\ LET c == currentClient[t]
       IN  /\ _context' = [_context EXCEPT ![c] = DtorRestore(ctxs[c][Len(ctxs[c])])]
           /\ ctxs' = [ctxs EXCEPT ![c] = SubSeq(@, 1, Len(@) - 1)]
    /\ DbMutexAfter(t, UnlockSharedState(lockState[t]))
    /\ scopes' = [scopes EXCEPT ![t] = SubSeq(@, 1, Len(@) - 1)]
    /\ UNCHANGED <<trav, mtxVars, regVars, dbs, ctxErr, ctxCall, rcNs, rcAuth, rcX, rcTrace>>

\* Threads with their Clients, constructing ReadContexts inside and outside
\* lock scopes of their own, and closing databases.
NextRC ==
    \E t \in Threads :
        \/ ReadLock(t)
        \/ WriteLock(t)
        \/ ScopeExit(t)
        \/ \E ns \in DbNames : CloseDatabase(t, ns)
        \/ \E ns \in DbNames, doauth \in BOOLEAN : RcBegin(t, ns, doauth)
        \/ RcLock(t)
        \/ \E env \in Envs : RcGet(t, env)
        \/ RcWriteLock(t)
        \/ \E env \in Envs : RcCreate(t, env)
        \/ RcRelock(t)
        \/ \E env \in Envs : RcContext(t, env)
        \/ RcReturn(t)
        \/ ReadContextDtor(t)

InitAllClients == InitClients(Threads) /\ InitCtx /\ InitPthread

SpecRC == InitAllClients /\ [][NextRC]_vars

\* ---------------------------------------------------- mutex.h: SimpleMutex

\* every variable outside mutex.h but pc
clientCppVars == <<restVars, trav, ctxVars, rcVars>>

\* every variable the SimpleMutex, RecursiveMutex and scoped_lock steps leave
\* alone, but pc
otherVars == <<clientCppVars, timeVars>>

\* How a SimpleMutex call can end for the caller: "ok", "silent" (it returned
\* though the caller had no right to make it), "fatal" (an assertion failed)
\* or "deadlock" (it never returns); with the lock's owner and depth and the
\* caller's _nlocksByMe afterwards. No outcome: the caller waits.
SmOutcome(res, owner, depth, nl) ==
    [res |-> res, owner |-> owner, depth |-> depth, nl |-> nl]

\* SimpleMutex::lock() by thread t.
\*   _WIN32 _DEBUG: assert( _nlocksByMe.get() == 0 ), then the critical section.
\*   _WIN32: EnterCriticalSection, which lets its owner in again.
\*   pthread: pthread_mutex_lock on a mutex of the default kind; locking it
\*     again from its owner is undefined: the call hangs, or fails and the
\*     assert fires.
SmLockAlways(t) ==
    {SmOutcome("ok", t, sm_depth + 1, _nlocksByMe[t])}
SimpleMutexLock(t) ==
    CASE build = "win32_DEBUG" ->
           IF _nlocksByMe[t] # 0
           THEN {SmOutcome("fatal", sm_lock, sm_depth, _nlocksByMe[t])}
           ELSE IF sm_lock \in {0, t}
           THEN {SmOutcome("ok", t, sm_depth + 1, 1)}
           ELSE {}
      [] build = "win32" ->
           IF sm_lock \in {0, t}
           THEN {SmOutcome("ok", t, sm_depth + 1, _nlocksByMe[t])}
           ELSE {}
      [] build = "pthread" ->
           IF sm_lock = 0
           THEN {SmOutcome("ok", t, 1, _nlocksByMe[t])}
           ELSE IF sm_lock = t
           THEN {SmOutcome(r, sm_lock, sm_depth, _nlocksByMe[t]) :
                    r \in {"deadlock", "fatal"}}
           ELSE {}

\* SimpleMutex::unlock() by thread t.
\*   _WIN32 _DEBUG: dassertLocked(), then the critical section is left.
\*   _WIN32: LeaveCriticalSection; from a thread that is not in it, it takes
\*     the owner one level out, and a free section is left unusable.
\*   pthread: pthread_mutex_unlock; from a thread that does not own the
\*     mutex it is undefined: it unlocks, or fails and the assert fires.
Leave(owner, depth) == IF depth <= 1 THEN 0 ELSE owner
SimpleMutexUnlock(t) ==
    CASE build = "win32_DEBUG" ->
           IF _nlocksByMe[t] # 1
           THEN {SmOutcome("fatal", sm_lock, sm_depth, _nlocksByMe[t])}
           ELSE {SmOutcome("ok", Leave(sm_lock, sm_depth), sm_depth - 1, 0)}
      [] build = "win32" ->
           IF sm_lock = t
           THEN {SmOutcome("ok", Leave(sm_lock, sm_depth), sm_depth - 1,
                           _nlocksByMe[t])}
           ELSE IF sm_lock = 0
           THEN {SmOutcome("silent", -1, 0, _nlocksByMe[t])}
           ELSE IF sm_lock = -1
           THEN {SmOutcome("silent", -1, 0, _nlocksByMe[t])}
           ELSE {SmOutcome("silent", Leave(sm_lock, sm_depth), sm_depth - 1,
                           _nlocksByMe[t])}
      [] build = "pthread" ->
           IF sm_lock = t
           THEN {SmOutcome("ok", 0, 0, _nlocksByMe[t])}
           ELSE {SmOutcome("silent", 0, 0, _nlocksByMe[t]),
                 SmOutcome("fatal", sm_lock, sm_depth, _nlocksByMe[t])}

\* where the caller stands after the call
AfterCall(res, next) ==
    CASE res = "fatal" -> "fatal"
      [] res = "deadlock" -> "deadlocked"
      [] OTHER -> next

\* outcome o of a SimpleMutex call by thread t, which goes on at next
SmApply(t, o, next) ==
    /\ sm_lock' = o.owner
    /\ sm_depth' = o.depth
    /\ _nlocksByMe' = [_nlocksByMe EXCEPT ![t] = o.nl]
    /\ pc' = [pc EXCEPT ![t] = AfterCall(o.res, next)]

\* ------------------------------------------------ mutex.h: RecursiveMutex

\* if( nLocksByMe++ == 0 ), on the counter before the increment
FirstLockAlways(n) == TRUE
FirstLock(n) == n = 0

\* if( --nLocksByMe == 0 ), on the counter before the decrement
LastUnlock(n) == n = 1

\* scoped_lock( RecursiveMutex &m ): if( nLocksByMe++ == 0 )
RmScopedLock(t) ==
    /\ ~Aborted
    /\ pc[t] = "run"
    /\ sm_alive
    /\ nLocksByMe[t] < MaxLocks
    /\ nLocksByMe' = [nLocksByMe EXCEPT ![t] = @ + 1]
    /\ pc' = [pc EXCEPT ![t] = IF FirstLock(nLocksByMe[t]) THEN "rmLock"
                                ELSE "run"]
    /\ mtxCall' = [mtxCall EXCEPT ![t] =
                     [op |-> "rm.scoped_lock", held |-> nLocksByMe[t] > 0,
                      res |-> IF FirstLock(nLocksByMe[t]) THEN "none" ELSE "ok",
                      deep |-> IF nLocksByMe[t] = 0 THEN 1
                               ELSE IF @.deep > nLocksByMe[t] THEN @.deep
                               ELSE nLocksByMe[t] + 1]]
    /\ UNCHANGED <<otherVars, build, _destroyingStatics, smVars, sm_native,
                   sm_alive, mx_lock, mx_native, mx_alive, dtorSawFlag>>

\* scoped_lock( RecursiveMutex &m ): rm.m.lock()
RmLock(t) ==
    /\ ~Aborted
    /\ pc[t] = "rmLock"
    /\ \E o \in SimpleMutexLock(t) :
          /\ SmApply(t, o, "run")
          /\ mtxCall' = [mtxCall EXCEPT ![t].res = o.res]
    /\ UNCHANGED <<otherVars, build, _destroyingStatics, sm_native, sm_alive,
                   mx_lock, mx_native, mx_alive, nLocksByMe, dtorSawFlag>>

\* ~scoped_lock(): assert( nLocksByMe > 0 ); if( --nLocksByMe == 0 ). It runs
\* at the end of a scoped_lock's scope, and again where a scoped_lock is
\* released twice.
RmScopedUnlock(t) ==
    /\ ~Aborted
    /\ pc[t] = "run"
    /\ sm_alive
    /\ IF nLocksByMe[t] > 0
       THEN /\ nLocksByMe' = [nLocksByMe EXCEPT ![t] = @ - 1]
            /\ pc' = [pc EXCEPT ![t] = IF LastUnlock(nLocksByMe[t])
                                        THEN "rmUnlock" ELSE "run"]
       ELSE /\ pc' = [pc EXCEPT ![t] = "fatal"]
            /\ UNCHANGED nLocksByMe
    /\ mtxCall' = [mtxCall EXCEPT ![t] =
                     [op |-> "rm.~scoped_lock", held |-> nLocksByMe[t] > 0,
                      res |-> IF nLocksByMe[t] > 0 THEN "ok" ELSE "fatal",
                      deep |-> @.deep]]
    /\ UNCHANGED <<otherVars, build, _destroyingStatics, smVars, sm_native,
                   sm_alive, mx_lock, mx_native, mx_alive, dtorSawFlag>>

\* ~scoped_lock(): rm.m.unlock()
RmUnlock(t) ==
    /\ ~Aborted
    /\ pc[t] = "rmUnlock"
    /\ \E o \in SimpleMutexUnlock(t) :
          /\ SmApply(t, o, "run")
          /\ mtxCall' = [mtxCall EXCEPT ![t].res = o.res]
    /\ UNCHANGED <<otherVars, build, _destroyingStatics, sm_native, sm_alive,
                   mx_lock, mx_native, mx_alive, nLocksByMe, dtorSawFlag>>

\* bool isLocked() const { return n.get() > 0; }, called by thread t
IsLocked(t) == nLocksByMe[t] > 0

\* a call of isLocked() by thread t; held records whether any thread owned
\* the SimpleMutex at the call
RmIsLocked(t) ==
    /\ ~Aborted
    /\ pc[t] = "run"
    /\ sm_alive
    /\ mtxCall' = [mtxCall EXCEPT ![t] =
                     [op |-> "rm.isLocked", held |-> sm_lock # 0,
                      res |-> IF IsLocked(t) THEN "true" ELSE "false",
                      deep |-> @.deep]]
    /\ UNCHANGED <<pc, otherVars, build, _destroyingStatics, smVars, sm_native,
                   sm_alive, mx_lock, mx_native, mx_alive, nLocksByMe,
                   dtorSawFlag>>

\* Threads taking and releasing scoped_locks on one RecursiveMutex, in every
\* build.
NextRM ==
    \E t \in Threads :
        \/ RmScopedLock(t)
        \/ RmLock(t)
        \/ RmScopedUnlock(t)
        \/ RmUnlock(t)
        \/ RmIsLocked(t)

InitRM == InitClients(Threads) /\ InitCtx /\ InitMtx

SpecRM == InitRM /\ [][NextRM]_vars

\* ------------------------------------------- registry-wide traversals

TravKinds == {"recommendedYieldMicros", "getActiveClientCount", "clientList"}

\* What a traversal reads of one Client's current CurOp (the CurOp's own
\* thread sets these as it runs): active(), isWaitingForLock(), getLockType().
CurOpViews == [active : BOOLEAN, waiting : BOOLEAN, lockType : {-1, 0, 1}]

\* recommendedYieldMicros, the loop body:
\* if ( isWaitingForLock() ) { num++; if ( getLockType() > 0 ) w++; else r++; }
YieldVisitZeroWrites(a, v) ==
    IF ~v.waiting THEN a
    ELSE IF v.lockType >= 0 THEN [a EXCEPT !.n = @ + 1, !.w = @ + 1]
    ELSE [a EXCEPT !.n = @ + 1, !.r = @ + 1]
YieldVisit(a, v) ==
    IF ~v.waiting THEN a
    ELSE IF v.lockType > 0 THEN [a EXCEPT !.n = @ + 1, !.w = @ + 1]
    ELSE [a EXCEPT !.n = @ + 1, !.r = @ + 1]

\* getActiveClientCount, the loop body: if ( ! active() ) continue;
\* if ( l > 0 ) writers++; else if ( l < 0 ) readers++;
CountVisit(a, v) ==
    IF ~v.active THEN a
    ELSE IF v.lockType > 0 THEN [a EXCEPT !.w = @ + 1]
    ELSE IF v.lockType < 0 THEN [a EXCEPT !.r = @ + 1]
    ELSE a

\* ClientListPlugin::run, the loop body: one table row for the Client
ListVisit(a, v) == [a EXCEPT !.n = @ + 1]

Visit(a, v) ==
    CASE a.kind = "recommendedYieldMicros" -> YieldVisit(a, v)
      [] a.kind = "getActiveClientCount" -> CountVisit(a, v)
      [] OTHER -> ListVisit(a, v)

\* int time = r * 100; time += w * 500; time = min( time , 1000000 );
YieldTime(w, r) ==
    LET time == r * 100 + w * 500
    IN IF time < 1000000 THEN time ELSE 1000000

\* scoped_lock bl(clientsMutex), the counters zeroed, i = clients.begin()
TravLockSkipped(t, kind) ==
    /\ ~Aborted
    /\ pc[t] = "run"
    /\ trav' = [trav EXCEPT ![t] = [NoTrav EXCEPT !.kind = kind]]
    /\ pc' = [pc EXCEPT ![t] = IF NextClient(0) = 0 THEN "travUnlock"
                                ELSE "travStep"]
    /\ UNCHANGED <<restVars, ctxVars, rcVars, mtxVars>>
TravLock(t, kind) ==
    /\ ~Aborted
    /\ pc[t] = "run"
    /\ clientsMutex = 0
    /\ clientsMutex' = t
    /\ trav' = [trav EXCEPT ![t] = [NoTrav EXCEPT !.kind = kind]]
    /\ pc' = [pc EXCEPT ![t] = IF NextClient(0) = 0 THEN "travUnlock"
                                ELSE "travStep"]
    /\ UNCHANGED <<currentClient, thisClient, clients, clientVars, opVars,
                   flagVars, killVars, ctxVars, rcVars, mtxVars>>

\* the history of a recommendedYieldMicros after a visit that read v
Saw(a, v) ==
    IF a.kind # "recommendedYieldMicros" THEN a
    ELSE [a EXCEPT !.sawW = @ + (IF v.waiting /\ v.lockType > 0 THEN 1 ELSE 0),
                   !.sawR = @ + (IF v.waiting /\ v.lockType <= 0 THEN 1 ELSE 0)]

\* the loop body for Client *i, then ++i
TravStep(t) ==
    /\ ~Aborted
    /\ pc[t] = "travStep"
    /\ LET j == NextClient(trav[t].iter)
       IN /\ \E v \in CurOpViews :
                trav' = [trav EXCEPT ![t] =
                                 [Saw(Visit(@, v), v) EXCEPT !.iter = j]]
          /\ pc' = [pc EXCEPT ![t] = IF NextClient(j) = 0 THEN "travUnlock"
                                      ELSE "travStep"]
    /\ UNCHANGED <<restVars, ctxVars, rcVars, mtxVars>>

\* the scoped_lock's release: at the closing brace of the block in
\* recommendedYieldMicros and ClientListPlugin::run, on return in
\* getActiveClientCount, which returns writers + readers
TravUnlock(t) ==
    /\ ~Aborted
    /\ pc[t] = "travUnlock"
    /\ clientsMutex' = 0
    /\ IF trav[t].kind = "recommendedYieldMicros"
       THEN /\ pc' = [pc EXCEPT ![t] = "yieldReturn"]
            /\ trav' = [trav EXCEPT ![t].iter = 0]
       ELSE /\ pc' = [pc EXCEPT ![t] = "run"]
            /\ trav' = [trav EXCEPT ![t] =
                           [NoTrav EXCEPT !.kind = trav[t].kind,
                                          !.ret = IF trav[t].kind = "getActiveClientCount"
                                                  THEN trav[t].w + trav[t].r
                                                  ELSE -1]]
    /\ UNCHANGED <<currentClient, thisClient, clients, clientVars, opVars,
                   flagVars, killVars, ctxVars, rcVars, mtxVars>>

\* recommendedYieldMicros: if ( *killCurrentOp.checkForInterruptNoAssert() )
\* return 100; return time;
YieldReturn(t) ==
    /\ ~Aborted
    /\ pc[t] = "yieldReturn"
    /\ trav' = [trav EXCEPT ![t] =
                   [NoTrav EXCEPT !.kind = trav[t].kind,
                                  !.ret = IF CheckForInterruptNoAssert(currentClient[t])
                                          THEN 100
                                          ELSE YieldTime(trav[t].w, trav[t].r)]]
    /\ pc' = [pc EXCEPT ![t] = "run"]
    /\ UNCHANGED <<restVars, ctxVars, rcVars, mtxVars>>

\* The registry-wide traversals and kill(i) against threads that start and
\* call shutdown().
NextTrav ==
    \E t \in Threads :
        \/ (pc[t] = "idle" /\ InitThread(t))
        \/ ClientCtor(t)
        \/ CtorLock(t)
        \/ CtorInsert(t)
        \/ SetTls(t)
        \/ \E kind \in TravKinds : TravLock(t, kind)
        \/ TravStep(t)
        \/ TravUnlock(t)
        \/ YieldReturn(t)
        \/ \E i \in KillIds : KillLock(t, i)
        \/ KillScan(t)
        \/ KillMark(t)
        \/ KillUnlock(t)
        \/ KillInterrupt(t)
        \/ (pc[t] = "run" /\ Shutdown(t))
        \/ ShutdownLock(t)
        \/ ShutdownErase(t)

SpecTrav == Init /\ [][NextTrav]_vars

\* -------------------------- mutex.h: SimpleMutex, mutex, StaticObserver

\* a call of SimpleMutex::lock() by thread t, wherever the caller makes it
SmLock(t) ==
    /\ ~Aborted
    /\ pc[t] = "run"
    /\ sm_alive
    /\ sm_depth < MaxLocks
    /\ \E o \in SimpleMutexLock(t) :
          /\ SmApply(t, o, "run")
          /\ mtxCall' = [mtxCall EXCEPT ![t] =
                           [op |-> "sm.lock", held |-> sm_lock = t,
                            res |-> o.res, deep |-> 0]]
    /\ UNCHANGED <<otherVars, build, _destroyingStatics, sm_native, sm_alive,
                   mx_lock, mx_native, mx_alive, nLocksByMe, dtorSawFlag>>

\* a call of SimpleMutex::unlock() by thread t, wherever the caller makes it
SmUnlock(t) ==
    /\ ~Aborted
    /\ pc[t] = "run"
    /\ sm_alive
    /\ \E o \in SimpleMutexUnlock(t) :
          /\ SmApply(t, o, "run")
          /\ mtxCall' = [mtxCall EXCEPT ![t] =
                           [op |-> "sm.unlock", held |-> sm_lock = t,
                            res |-> o.res, deep |-> 0]]
    /\ UNCHANGED <<otherVars, build, _destroyingStatics, sm_native, sm_alive,
                   mx_lock, mx_native, mx_alive, nLocksByMe, dtorSawFlag>>

\* boost::timed_mutex::scoped_lock _l( m.boost() ) by thread t: how it can
\* end. The boost mutex is not recursive: its holder waits for itself, or,
\* where it is a pthread mutex, the failed lock is asserted on. No outcome:
\* the caller waits for another thread.
MutexLock(t) ==
    IF mx_lock = 0 THEN {"ok"}
    ELSE IF mx_lock # t THEN {}
    ELSE IF build = "pthread" THEN {"deadlock", "fatal"}
    ELSE {"deadlock"}

\* mongo::mutex::scoped_lock::scoped_lock( mongo::mutex &m )
MxScopedLock(t) ==
    /\ ~Aborted
    /\ pc[t] = "run"
    /\ mx_alive
    /\ \E r \in MutexLock(t) :
          /\ mx_lock' = IF r = "ok" THEN t ELSE mx_lock
          /\ pc' = [pc EXCEPT ![t] = AfterCall(r, "run")]
          /\ mtxCall' = [mtxCall EXCEPT ![t] =
                           [op |-> "mutex.scoped_lock", held |-> mx_lock = t,
                            res |-> r, deep |-> 0]]
    /\ UNCHANGED <<otherVars, build, _destroyingStatics, smVars, sm_native,
                   sm_alive, mx_native, mx_alive, nLocksByMe, dtorSawFlag>>

\* mongo::mutex::scoped_lock::~scoped_lock(): _l releases the lock it took
MxScopedUnlock(t) ==
    /\ ~Aborted
    /\ pc[t] = "run"
    /\ mx_alive
    /\ mx_lock = t
    /\ mx_lock' = 0
    /\ mtxCall' = [mtxCall EXCEPT ![t] =
                     [op |-> "mutex.~scoped_lock", held |-> TRUE,
                      res |-> "ok", deep |-> 0]]
    /\ UNCHANGED <<pc, otherVars, build, _destroyingStatics, smVars, sm_native,
                   sm_alive, mx_native, mx_alive, nLocksByMe, dtorSawFlag>>

\* ~StaticObserver() { _destroyingStatics = true; }
StaticObserverDtor ==
    /\ ~Aborted
    /\ ~_destroyingStatics
    /\ _destroyingStatics' = TRUE
    /\ UNCHANGED <<pc, otherVars, build, smVars, sm_native, sm_alive, mx_lock,
                   mx_native, mx_alive, nLocksByMe, mtxCall, dtorSawFlag>>

\* the native lock after ~SimpleMutex() has run with the flag at destroying.
\*   _WIN32: DeleteCriticalSection(&_cs), whatever the flag.
\*   pthread: pthread_mutex_destroy unless _destroyingStatics.
SimpleMutexNativeAfterDtor(destroying) ==
    IF build = "pthread" /\ destroying THEN "live" ELSE "destroyed"

\* the boost mutex after ~mutex(): delete _m unless _destroyingStatics
MutexNativeAfterDtor(destroying) ==
    IF destroying THEN "live" ELSE "destroyed"

\* ~SimpleMutex(), run by thread t. On pthread, destroying a mutex that is
\* held is undefined: it is destroyed, or the call fails and the assert fires.
SimpleMutexDtor(t) ==
    /\ ~Aborted
    /\ pc[t] = "run"
    /\ sm_alive
    /\ \E r \in IF build = "pthread" /\ ~_destroyingStatics /\ sm_lock # 0
                THEN {"ok", "fatal"} ELSE {"ok"} :
          /\ pc' = [pc EXCEPT ![t] = AfterCall(r, "run")]
          /\ sm_alive' = (r = "fatal")
          /\ sm_native' = IF r = "fatal" THEN sm_native
                          ELSE SimpleMutexNativeAfterDtor(_destroyingStatics)
          /\ dtorSawFlag' = IF r = "fatal" THEN dtorSawFlag
                            ELSE [dtorSawFlag EXCEPT !["SimpleMutex"] =
                                     _destroyingStatics]
    /\ UNCHANGED <<otherVars, build, _destroyingStatics, smVars, mx_lock,
                   mx_native, mx_alive, nLocksByMe, mtxCall>>

\* ~mutex(), run by thread t
MutexDtor(t) ==
    /\ ~Aborted
    /\ pc[t] = "run"
    /\ mx_alive
    /\ mx_alive' = FALSE
    /\ mx_native' = MutexNativeAfterDtor(_destroyingStatics)
    /\ dtorSawFlag' = [dtorSawFlag EXCEPT !["mutex"] = _destroyingStatics]
    /\ UNCHANGED <<pc, otherVars, build, _destroyingStatics, smVars, sm_native,
                   sm_alive, mx_lock, nLocksByMe, mtxCall>>

\* Threads calling lock() and unlock() on one SimpleMutex and taking and
\* leaving scoped_locks on one mongo::mutex, in every build, until the
\* mutexes are destroyed, before or after ~StaticObserver.
NextMutex ==
    \/ StaticObserverDtor
    \/ \E t \in Threads :
          \/ SmLock(t)
          \/ SmUnlock(t)
          \/ MxScopedLock(t)
          \/ MxScopedUnlock(t)
          \/ SimpleMutexDtor(t)
          \/ MutexDtor(t)

InitMutexes == InitClients(Threads) /\ InitCtx /\ InitMtx

SpecMutex == InitMutexes /\ [][NextMutex]_vars

\* ------------------------------------------------ mutex.h: mutex::try_lock

\* incxtimemillis( s ), with xt the time xtime_get read:
\* xt.sec += s / 1000; xt.nsec += ( s % 1000 ) * 1000000;
\* if ( xt.nsec >= 1000000000 ) { xt.nsec -= 1000000000; xt.sec++; }
incxtimemillis(xt, s) ==
    LET sec == xt.sec + (s \div 1000)
        nsec == xt.nsec + (s % 1000) * 1000000
    IN IF nsec >= 1000000000 THEN XTime(sec + 1, nsec - 1000000000)
       ELSE XTime(sec, nsec)

\* xtime a is later than xtime b
Later(a, b) == a.sec > b.sec \/ (a.sec = b.sec /\ a.nsec > b.nsec)

\* scoped_timed_lock( m, xt ): the wait is over at xt
TimedOutNever(xt) == FALSE
TimedOut(xt) == ~Later(xt, now)

\* the time budgets callers pass, in milliseconds
Budgets == {0, 250, 1500}

\* try_lock( m, millis ): _l( m.boost() , incxtimemillis( millis ) ) starts
TryLock(t, millis) ==
    /\ ~Aborted
    /\ pc[t] = "run"
    /\ mx_alive
    /\ now.sec < MaxSec
    /\ deadline' = [deadline EXCEPT ![t] = incxtimemillis(now, millis)]
    /\ pc' = [pc EXCEPT ![t] = "tryWait"]
    /\ UNCHANGED <<clientCppVars, build, _destroyingStatics, smVars, sm_native,
                   sm_alive, mx_lock, mx_native, mx_alive, nLocksByMe, mtxCall,
                   dtorSawFlag, now>>

\* scoped_timed_lock: the mutex is free, and taken; ok( _l.owns_lock() ) is true
TryLockAcquire(t) ==
    /\ ~Aborted
    /\ pc[t] = "tryWait"
    /\ mx_lock = 0
    /\ mx_lock' = t
    /\ pc' = [pc EXCEPT ![t] = "tryHeld"]
    /\ UNCHANGED <<clientCppVars, build, _destroyingStatics, smVars, sm_native,
                   sm_alive, mx_native, mx_alive, nLocksByMe, mtxCall,
                   dtorSawFlag, timeVars>>

\* scoped_timed_lock: the mutex is held and the time is up; ok is false
TryLockTimeout(t) ==
    /\ ~Aborted
    /\ pc[t] = "tryWait"
    /\ mx_lock # 0
    /\ TimedOut(deadline[t])
    /\ pc' = [pc EXCEPT ![t] = "tryFailed"]
    /\ UNCHANGED <<clientCppVars, build, _destroyingStatics, smVars, sm_native,
                   sm_alive, mx_lock, mx_native, mx_alive, nLocksByMe, mtxCall,
                   dtorSawFlag, timeVars>>

\* ~try_lock(): _l releases the mutex if it owns it
TryLockDtor(t) ==
    /\ ~Aborted
    /\ pc[t] \in {"tryHeld", "tryFailed"}
    /\ mx_lock' = IF pc[t] = "tryHeld" THEN 0 ELSE mx_lock
    /\ deadline' = [deadline EXCEPT ![t] = NoTime]
    /\ pc' = [pc EXCEPT ![t] = "run"]
    /\ UNCHANGED <<clientCppVars, build, _destroyingStatics, smVars, sm_native,
                   sm_alive, mx_native, mx_alive, nLocksByMe, mtxCall,
                   dtorSawFlag, now>>

\* time passes, up to the time some try_lock waits for
Tick ==
    /\ ~Aborted
    /\ \E u \in Threads :
          /\ pc[u] = "tryWait"
          /\ Later(deadline[u], now)
          /\ now' = deadline[u]
    /\ UNCHANGED <<pc, clientCppVars, build, _destroyingStatics, smVars,
                   sm_native, sm_alive, mx_lock, mx_native, mx_alive,
                   nLocksByMe, mtxCall, dtorSawFlag, deadline>>

\* Threads constructing and destroying try_locks and scoped_locks on one
\* mongo::mutex as time passes.
NextTry ==
    \/ Tick
    \/ \E t \in Threads :
          \/ \E millis \in Budgets : TryLock(t, millis)
          \/ TryLockAcquire(t)
          \/ TryLockTimeout(t)
          \/ TryLockDtor(t)
          \/ MxScopedLock(t)
          \/ MxScopedUnlock(t)

InitTry == InitClients(Threads) /\ InitCtx /\ InitPthread

\* The clock runs, and a thread in a timed wait is scheduled: it takes the
\* mutex if it is free and gives up if the time is up.
SpecTry ==
    /\ InitTry
    /\ [][NextTry]_vars
    /\ WF_vars(Tick)
    /\ \A t \in Threads : WF_vars(TryLockAcquire(t) \/ TryLockTimeout(t))

\* ============================================================== claims

\* ---- C2 --------------------------------------------------------------
\* the killed flag CurOp p of Client d had when kill of thread t took the
\* registry mutex (a CurOp constructed since then started unflagged)
WasKilled(t, d, p) ==
    IF p <= Len(killSnap[t][d]) THEN killSnap[t][d][p].killed ELSE FALSE

\* a registered Client had a CurOp numbered i in its chain at that moment
HadMatch(t) ==
    \E c \in clients : \E m \in 1..Len(killSnap[t][c]) :
        killSnap[t][c][m].opNum = killArg[t]

AllFlagsAsBefore(t) ==
    \A d \in ClientIds : \A p \in 1..Len(_curOp[d]) :
        _curOp[d][p].killed = WasKilled(t, d, p)

\* C2: when kill(i) has finished its scan (and still holds the registry
\* mutex): a CurOp numbered i in a registered Client's chain is found; the
\* matched CurOp and every CurOp between it and that Client's current CurOp
\* are flagged killed; the ancestors of the match, every other Client's
\* CurOps and, when nothing matched, all CurOps have the flag they had.
C2_KillMarksExactlyTheInnerChain ==
    \A t \in Threads : pc[t] = "killUnlock" =>
        /\ HadMatch(t) => found[t]
        /\ ~found[t] => AllFlagsAsBefore(t)
        /\ found[t] =>
             \E c \in clients : \E m \in 1..Len(_curOp[c]) :
                /\ _curOp[c][m].opNum = killArg[t]
                /\ _curOp[c][m].killed
                /\ \A d \in ClientIds : \A p \in 1..Len(_curOp[d]) :
                      IF d = c /\ p >= m
                      THEN p <= Len(killSnap[t][c]) => _curOp[d][p].killed
                      ELSE _curOp[d][p].killed = WasKilled(t, d, p)

\* the outer of two nested operations is killed: the inner one is flagged
\* too, and another Client's CurOp is not
C2_Witness ==
    \E t \in Threads : \E c, d \in ClientIds :
        /\ pc[t] = "killUnlock" /\ found[t]
        /\ c # d
        /\ Len(_curOp[c]) = 2
        /\ _curOp[c][1].opNum = killArg[t]
        /\ ~killSnap[t][c][2].killed
        /\ _curOp[c][2].killed
        /\ Len(_curOp[d]) >= 1
        /\ ~_curOp[d][1].killed

KilledFlags == [c \in ClientIds |-> [p \in 1..Len(_curOp[c]) |-> _curOp[c][p].killed]]

\* C7: once killAll() has run, an interruption check by any thread's
\* operation reports the interruption; the killAll() step asks the script
\* engine (when there is one) to interrupt all scripts and changes no
\* CurOp's killed flag.
C7_KillAll ==
    /\ [](killAllCalled =>
            /\ _globalKill
            /\ \A t \in Threads :
                  currentClient[t] # 0 => CheckForInterruptNoAssert(currentClient[t]))
    /\ [][killAllTick' # killAllTick =>
            /\ KilledFlags' = KilledFlags
            /\ globalScriptEngine =>
                  jsInterrupts' = [call |-> "interruptAll", op |-> 0]]_vars

\* killAll() has run while one operation was flagged killed and another,
\* on a thread between operations, was not
C7_Witness ==
    /\ killAllCalled
    /\ jsInterrupts.call = "interruptAll"
    /\ \E c \in ClientIds : Len(_curOp[c]) >= 1 /\ _curOp[c][Len(_curOp[c])].killed
    /\ \E t \in Threads :
          /\ pc[t] = "run"
          /\ ~_curOp[currentClient[t]][Len(_curOp[currentClient[t]])].killed

\* ---- C4 --------------------------------------------------------------
\* Every thread has run initThread once and no thread has begun shutdown()
\* or ~Client.
AllThreadsInitialised ==
    /\ \A t \in Threads : pc[t] \in {"run", "curopLock", "curopRestore"}
    /\ \A c \in ClientIds : ~_shutdown[c]

\* C4: when each of the N threads has called initThread once, exactly N
\* Clients exist, the registry holds exactly those N Clients, and every
\* thread's thread-local slot holds the Client that thread created; at no
\* time does a thread's slot hold a Client another thread created.
C4_InitThreadPerThreadClient ==
    /\ \A t, u \in Threads :
          (t # u /\ currentClient[t] # 0) => currentClient[t] # thisClient[u]
    /\ \A t \in Threads :
          currentClient[t] # 0 => currentClient[t] = thisClient[t]
    /\ AllThreadsInitialised =>
          /\ Cardinality({c \in ClientIds : life[c] = "live"}) = Cardinality(Threads)
          /\ clients = {c \in ClientIds : life[c] = "live"}
          /\ clients = {currentClient[t] : t \in Threads}
          /\ Cardinality(clients) = Cardinality(Threads)

C4_Witness ==
    /\ AllThreadsInitialised
    /\ \A t \in Threads : currentClient[t] # 0
    /\ currentClient[1] = 2

\* ---- C5 --------------------------------------------------------------
\* C5: outside global shutdown, whenever the registry mutex is free the
\* registry is exactly the set of Clients constructed, not destroyed and
\* with no completed shutdown() call; a destroyed Client is never in the
\* registry, shutdown() called or not.
C5_RegistryExact ==
    ~inShutdown =>
        /\ clientsMutex = 0 =>
              clients = {c \in ClientIds : life[c] = "live" /\ shutdownsDone[c] = 0}
        /\ \A c \in ClientIds : life[c] = "destroyed" => c \notin clients

\* a Client destroyed without shutdown(), beside one still registered
C5_Witness ==
    /\ ~inShutdown
    /\ clientsMutex = 0
    /\ \E c \in ClientIds : life[c] = "destroyed" /\ ~_shutdown[c]
    /\ \E c \in ClientIds : life[c] = "destroyed" /\ _shutdown[c]

\* ---- C6 --------------------------------------------------------------
\* C6: the operation numbers handed out at CurOp construction, by whichever
\* thread and in whichever interleaving, are strictly increasing in order of
\* assignment: none is handed out twice.
C6_OpNumsStrictlyIncreasing ==
    \A a, b \in 1..Len(assigned) : a < b => assigned[a] < assigned[b]

\* both threads have constructed CurOps, interleaved
C6_Witness ==
    /\ Len(assigned) = MaxOps
    /\ \E c \in ClientIds :
          /\ Len(_curOp[c]) = 2
          /\ _curOp[c][2].opNum > _curOp[c][1].opNum + 1

\* ---- C1 --------------------------------------------------------------
\* C1: for one Client, across properly nested Context constructions (by any
\* of the three constructors) and destructions, failed constructions
\* included, _context is the innermost live Context and every live Context
\* saved the one beneath it; so with every Context destroyed _context is
\* what it was before the first construction (null), and right after a
\* destruction or a failed construction it is the _oldContext that Context
\* saved.
C1_ContextStackDiscipline ==
    ~Aborted =>
        \A c \in ClientIds :
            /\ _context[c] = Len(ctxs[c])
            /\ \A p \in 1..Len(ctxs[c]) : ctxs[c][p]._oldContext = p - 1
            /\ ctxs[c] = <<>> => _context[c] = 0
            /\ ctxCall[c].kind \in {"destroyed", "failed"}
                  => _context[c] = ctxCall[c].old

\* a construction failed on authorization inside a live Context, and since
\* then every Context has been destroyed
C1_Witness ==
    /\ ctxCall[1].kind = "destroyed"
    /\ ctxCall[1].before = 1
    /\ ctxErr[1] = "10057"
    /\ ctxs[1] = <<>>
    /\ dbs = DbNames

\* ---- C10 -------------------------------------------------------------
\* C10: a Context construction with doauth, for a Client that is not
\* authorized, that got as far as the authorization check (no assertion,
\* out-of-disk-space, open or staleness failure before it) fails with 10057,
\* never succeeds, and when 10057 is thrown _context is what it was before
\* the construction began.
C10_AuthFailureRestores ==
    \A c \in ClientIds :
        LET call == ctxCall[c]
            unauthorized == call.doauth /\ ~call.authorized
        IN  /\ call.kind = "constructed" => ~unauthorized
            /\ (/\ call.kind = "failed"
                /\ unauthorized
                /\ ctxErr[c] \notin {"assert", "segv", "14031", "notOpen", "stale"})
                  => ctxErr[c] = "10057"
            /\ (call.kind = "failed" /\ ctxErr[c] = "10057")
                  => unauthorized /\ _context[c] = call.before

\* authorization failed for a Context nested in a live one
C10_Witness ==
    /\ ctxCall[1].kind = "failed"
    /\ ctxCall[1].doauth
    /\ ~ctxCall[1].authorized
    /\ ctxErr[1] = "10057"
    /\ ctxCall[1].before = 1
    /\ _context[1] = 1

\* ---- C8 --------------------------------------------------------------
\* what the constructor does after lk.reset(0) when every step succeeds; the
\* temporary Context creates the database ("open") unless another thread
\* created it after the read lock was released
UpgradeTrace(created) ==
    <<"R+", "R-", "W+">> \o (IF created THEN <<"open">> ELSE <<>>)
        \o <<"ctx+", "ctx-", "W-", "R+", "ctx+">>

C9_NestedReadFails ==
    \A t \in Threads :
        /\ (pc[t] = "rcDone" /\ rcX[t] < -1)
             => /\ ctxErr[currentClient[t]] = "15928"
                /\ rcTrace[t] = <<"r+", "r-">>
                /\ lockState[t] = rcX[t] + 1
                /\ rcNs[t] \notin dbs
        /\ (pc[t] = "rcLock" /\ lockState[t] < 0 /\ ~Aborted) => ENABLED RcLock(t)
        /\ (pc[t] = "rcGet" /\ lockState[t] < -1 /\ ~Aborted)
             => ENABLED (\E env \in Envs : RcGet(t, env))

\* 15928 thrown to a thread inside its own read lock while the other thread
\* holds the read lock as well
C9_Witness ==
    /\ pc[1] = "rcDone"
    /\ rcX[1] = -2
    /\ ctxErr[1] = "15928"
    /\ scopes[1] = <<"readlock">>
    /\ lockState[1] = -1
    /\ 2 \in dbReaders

\* ---- C11 -------------------------------------------------------------
\* the kinds checkNotStale lets through unchecked
ExemptKinds == {"dbGetMore", "dbUpdate", "dbDelete"}

\* C11: a Context construction, by any constructor, that is not stopped
\* earlier (assertion, out of disk space, database not open) and runs for an
\* operation of a non-exempt kind on a namespace whose version is not
\* current, fails with the staleness error and leaves _context as it was;
\* for an exempt kind no construction fails with the staleness error.
C11_StaleConstructionFails ==
    \A c \in ClientIds :
        LET call == ctxCall[c]
        IN  call.kind \in {"constructed", "failed"} =>
              /\ (/\ call.op \notin ExemptKinds
                  /\ ~call.versionOk
                  /\ ctxErr[c] \notin {"assert", "segv", "14031", "notOpen"})
                    => ctxErr[c] = "stale" /\ _context[c] = call.before
              /\ call.op \in ExemptKinds => ctxErr[c] # "stale"

\* ---- C12 -------------------------------------------------------------
\* thread t is past the acquisition of the RecursiveMutex
InsideRm(t) == pc[t] = "run" /\ nLocksByMe[t] > 0

\* C12: a thread inside the RecursiveMutex takes another scoped_lock in one
\* step that never waits and leaves the SimpleMutex alone; a thread whose
\* counter is back at 0 does not own the SimpleMutex, which is free once no
\* thread is in a scoped_lock, and a thread waiting for a free SimpleMutex
\* can take it; no two threads are inside at once; and a ~scoped_lock run
\* with the counter not positive ends in the fatal assertion, which nothing
\* else does.
C12_RecursiveMutex ==
    /\ [](\A t \in Threads :
            /\ (InsideRm(t) /\ nLocksByMe[t] < MaxLocks /\ ~Aborted)
                  => ENABLED RmScopedLock(t)
            /\ (pc[t] = "run" /\ nLocksByMe[t] = 0) => sm_lock # t
            /\ (pc[t] = "rmLock" /\ sm_lock = 0 /\ ~Aborted) => ENABLED RmLock(t)
            /\ \A u \in Threads \ {t} : ~(InsideRm(t) /\ InsideRm(u))
            /\ pc[t] = "fatal"
                  <=> (mtxCall[t].op = "rm.~scoped_lock" /\ ~mtxCall[t].held))
    /\ []((\A t \in Threads : pc[t] = "run" /\ nLocksByMe[t] = 0) => sm_lock = 0)
    /\ [][\A t \in Threads :
            (InsideRm(t) /\ nLocksByMe'[t] = nLocksByMe[t] + 1)
              => pc'[t] = "run" /\ sm_lock' = sm_lock /\ sm_depth' = sm_depth]_vars

\* thread 1 has locked twice and unlocked twice, and thread 2 is inside
C12_Witness ==
    /\ mtxCall[1].op = "rm.~scoped_lock"
    /\ mtxCall[1].res = "ok"
    /\ mtxCall[1].deep = 2
    /\ nLocksByMe[1] = 0
    /\ pc[1] = "run"
    /\ InsideRm(2)
    /\ sm_lock = 2

\* ---- C13 -------------------------------------------------------------
\* C13 as stated: in every state the SimpleMutex is held iff some thread's
\* counter is positive. The constructor increments the counter before it
\* calls lock() and the destructor decrements it before it calls unlock().
C13_HeldIffCounterPositive ==
    (sm_lock # 0) <=> (\E t \in Threads : nLocksByMe[t] > 0)

\* C13: thread t owns the SimpleMutex iff its counter is positive and it is
\* not still in the constructor's lock(), or its counter is 0 and it is still
\* in the destructor's unlock(); so with no thread inside a scoped_lock
\* constructor or destructor the SimpleMutex is held iff some counter is
\* positive; and the SimpleMutex is released by the thread that took it.
C13_HeldIffCounterPositiveAtRest ==
    /\ [](\A t \in Threads :
            sm_lock = t <=> \/ nLocksByMe[t] > 0 /\ pc[t] # "rmLock"
                            \/ pc[t] = "rmUnlock")
    /\ []((\A t \in Threads : pc[t] \notin {"rmLock", "rmUnlock"})
            => C13_HeldIffCounterPositive)
    /\ [][\A t \in Threads :
            (sm_lock = t /\ sm_lock' # t)
              => pc[t] = "rmUnlock" /\ pc'[t] = "run" /\ sm_lock' = 0]_vars

\* thread 1 is inside two deep while thread 2 has counted itself in and waits
C13_Witness ==
    /\ sm_lock = 1
    /\ nLocksByMe[1] = 2
    /\ pc[1] = "run"
    /\ nLocksByMe[2] = 1
    /\ pc[2] = "rmLock"

\* ---- C14 -------------------------------------------------------------
\* C14: _destroyingStatics, once true, stays true; and a mongo::mutex or a
\* SimpleMutex that has been destroyed has kept its native lock if its
\* destructor ran with the flag set and has lost it if the destructor ran
\* with the flag unset, in every build.
C14_NoNativeDestroyAfterFlag ==
    /\ [][_destroyingStatics => _destroyingStatics']_vars
    /\ [](/\ ~sm_alive => (sm_native = "live" <=> dtorSawFlag["SimpleMutex"])
          /\ ~mx_alive => (mx_native = "live" <=> dtorSawFlag["mutex"]))

\* ---- C15 -------------------------------------------------------------
\* a lock by the thread that holds the lock, or an unlock by one that does not
Misuse(call) ==
    \/ call.op \in {"sm.lock", "mutex.scoped_lock"} /\ call.held
    \/ call.op = "sm.unlock" /\ ~call.held

\* C15: on a mongo::mutex or a SimpleMutex, in every build, a lock by the
\* holder and an unlock by a thread that does not hold it end in the fatal
\* assertion.
C15_MisuseIsFatal ==
    \A t \in Threads : Misuse(mtxCall[t]) => mtxCall[t].res = "fatal"

\* ---- C16 -------------------------------------------------------------
\* thread t is in a registry-wide traversal: past the scoped_lock on
\* clientsMutex and not yet past its release
Traversing(t) ==
    pc[t] \in {"killScan", "killMark", "killUnlock", "travStep", "travUnlock"}

\* the traversal steps of thread t
TraversalStep(t) ==
    KillScan(t) \/ KillMark(t) \/ KillUnlock(t) \/ TravStep(t) \/ TravUnlock(t)

ScanMatched(t) ==
    /\ killK[t] # <<0, 0>>
    /\ LET k == _curOp[killK[t][1]][killK[t][2]]
       IN k.opNum = killArg[t] /\ k.killed

\* C17: kill(i) goes on to interruptJs( &i ) when it releases clientsMutex
\* if and only if its scan found a CurOp numbered i; the thread at the
\* request does not hold clientsMutex, and every CurOp numbered i still in
\* a chain is flagged killed; the release and the request change no killed
\* flag; the request asks the script engine, if there is one, to interrupt
\* operation i; and nothing else makes a request.
C17_InterruptAfterUnlock ==
    /\ [](\A t \in Threads :
            pc[t] = "killInterrupt" =>
               /\ clientsMutex # t
               /\ \A c \in ClientIds : \A p \in 1..Len(_curOp[c]) :
                     _curOp[c][p].opNum = killArg[t] => _curOp[c][p].killed)
    /\ [][\A t \in Threads :
            /\ (pc[t] = "killUnlock" /\ pc'[t] # "killUnlock") =>
                  /\ pc'[t] = "killInterrupt" <=> ScanMatched(t)
                  /\ pc'[t] = "run" <=> killK[t] = <<0, 0>>
                  /\ clientsMutex' = 0
                  /\ KilledFlags' = KilledFlags
            /\ (pc[t] = "killInterrupt" /\ pc'[t] # "killInterrupt") =>
                  /\ jsInterrupts' = IF globalScriptEngine
                                     THEN [call |-> "interrupt", op |-> killArg[t]]
                                     ELSE jsInterrupts
                  /\ KilledFlags' = KilledFlags
            /\ (pc[t] # "killInterrupt" /\ pc'[t] = "killInterrupt") =>
                  pc[t] = "killUnlock"]_vars
    /\ [][jsInterrupts' # jsInterrupts =>
            \E t \in Threads : pc[t] = "killInterrupt" /\ pc'[t] = "run"]_vars

\* thread 1 is about to request the interruption of a script engine while
\* thread 2 holds the registry mutex
C17_Witness ==
    /\ pc[1] = "killInterrupt"
    /\ globalScriptEngine
    /\ clientsMutex = 2

\* ---- C18 -------------------------------------------------------------
\* thread t takes a step of a shutdown() call on its Client that is not the
\* Client's first
LaterShutdownStep(t) ==
    LET c == currentClient[t]
    IN /\ c # 0
       /\ shutdownsDone[c] >= 1
       /\ \/ pc[t] = "stopped" /\ pc'[t] = "sdLock"
          \/ pc[t] = "stopped" /\ shutdownsDone'[c] # shutdownsDone[c]
          \/ pc[t] = "sdLock" /\ pc'[t] = "sdErase"
          \/ pc[t] = "sdErase" /\ pc'[t] = "stopped"

\* C18: a step of a second or later shutdown() call changes neither the
\* registry, nor any Client's _shutdown flag (the caller's stays set), nor
\* syncThread, nor anything of another Client; and every completed call, the
\* first included, has returned false.
C18_ShutdownIdempotent ==
    /\ [][\A t \in Threads :
            LaterShutdownStep(t) =>
               /\ clients' = clients
               /\ _shutdown' = _shutdown
               /\ _shutdown[currentClient[t]]
               /\ syncThread' = syncThread
               /\ \A d \in ClientIds \ {currentClient[t]} :
                     /\ life'[d] = life[d]
                     /\ _curOp'[d] = _curOp[d]
                     /\ shutdownsDone'[d] = shutdownsDone[d]
                     /\ shutdownRet'[d] = shutdownRet[d]]_vars
    /\ [](\A c \in ClientIds :
            shutdownRet[c] = IF shutdownsDone[c] = 0 THEN "none" ELSE "false")

\* Client 1 has completed two shutdown() calls outside global shutdown, with
\* Client 2 registered and marked as the sync thread
C18_Witness ==
    /\ shutdownsDone[1] = 2
    /\ ~inShutdown
    /\ clients = {2}
    /\ syncThread = 2
    /\ life[1] = "live"

\* ---- C19 -------------------------------------------------------------
\* thread t runs shutdown() up to its test of inShutdown()
ShutdownEntered(t) ==
    /\ pc[t] \in {"run", "stopped"}
    /\ \/ pc'[t] = "sdLock"
       \/ shutdownsDone'[currentClient[t]] # shutdownsDone[currentClient[t]]

\* thread t runs ~Client up to its test of inShutdown()
DtorEntered(t) ==
    /\ pc[t] \in {"run", "stopped"}
    /\ pc'[t] \in {"dtorLock", "done"}

\* C19: with inShutdown() true, shutdown() sets _shutdown and returns at
\* once, and ~Client ends at once: neither goes on to take clientsMutex, the
\* registry and the mutex are as before, and ~Client leaves every CurOp in
\* place.
C19_NoCleanupInGlobalShutdown ==
    [][\A t \in Threads :
         /\ (inShutdown /\ ShutdownEntered(t)) =>
               /\ pc'[t] = "stopped"
               /\ _shutdown'[currentClient[t]]
               /\ clients' = clients
               /\ clientsMutex' = clientsMutex
         /\ (inShutdown /\ DtorEntered(t)) =>
               /\ pc'[t] = "done"
               /\ clients' = clients
               /\ clientsMutex' = clientsMutex
               /\ _curOp' = _curOp]_vars

\* in global shutdown Client 1 has been shut down and destroyed: it is still
\* registered, with its CurOp
C19_Witness ==
    /\ inShutdown
    /\ life[1] = "destroyed"
    /\ _shutdown[1]
    /\ shutdownsDone[1] >= 1
    /\ 1 \in clients
    /\ _curOp[1] # <<>>

\* ---- C20 -------------------------------------------------------------
\* thread t calls initThread
InitThreadCalled(t) ==
    /\ pc[t] \in {"idle", "run"}
    /\ pc'[t] \in {"newClient", "fatal"}

\* C20: initThread on a thread whose slot holds a Client ends in the fatal
\* assertion with no Client allocated, the registry, every slot and the
\* operation counter as before; so the Client a thread has created is the
\* only one it ever creates, and every Client was created by one thread.
C20_SecondInitThreadIsFatal ==
    /\ [][\A t \in Threads :
            /\ (InitThreadCalled(t) /\ currentClient[t] # 0) =>
                  /\ pc'[t] = "fatal"
                  /\ clients' = clients
                  /\ currentClient' = currentClient
                  /\ thisClient' = thisClient
                  /\ life' = life
                  /\ _curOp' = _curOp
                  /\ _nextOpNum' = _nextOpNum
            /\ thisClient[t] # 0 => thisClient'[t] = thisClient[t]]_vars
    /\ [](\A c \in ClientIds :
            life[c] # "none" =>
               Cardinality({t \in Threads : thisClient[t] = c}) = 1)

\* thread 1 has called initThread a second time: its one Client is
\* registered and in its slot, and thread 2 has its own
C20_Witness ==
    /\ pc[1] = "fatal"
    /\ currentClient[1] # 0
    /\ clients = {currentClient[1], currentClient[2]}
    /\ currentClient[2] # 0
    /\ Cardinality({c \in ClientIds : life[c] # "none"}) = 2

\* ---- C21 -------------------------------------------------------------
\* C21: recommendedYieldMicros leaves its loop, and the registry mutex, when
\* it has visited every registered Client; its counters r and w (*readers
\* and *writers) are then the numbers of Clients it saw waiting with lock
\* type <= 0 and > 0; and it returns 100 if the caller's operation is
\* flagged interrupted at the test, and min( 100 r + 500 w, 1000000 )
\* otherwise.
C21_RecommendedYieldMicros ==
    /\ [](\A t \in Threads :
            (trav[t].kind = "recommendedYieldMicros"
               /\ pc[t] \in {"travUnlock", "yieldReturn"}) =>
               /\ trav[t].r = trav[t].sawR
               /\ trav[t].w = trav[t].sawW
               /\ pc[t] = "travUnlock" => NextClient(trav[t].iter) = 0)
    /\ [][\A t \in Threads :
            (pc[t] = "yieldReturn" /\ pc'[t] # "yieldReturn") =>
               LET time == 100 * trav[t].sawR + 500 * trav[t].sawW
               IN trav'[t].ret =
                     IF CheckForInterruptNoAssert(currentClient[t]) THEN 100
                     ELSE IF time < 1000000 THEN time ELSE 1000000]_vars

\* thread 1 is about to return from recommendedYieldMicros having seen one
\* waiting reader and one waiting writer, its own operation not interrupted
C21_Witness ==
    /\ pc[1] = "yieldReturn"
    /\ trav[1].sawR = 1
    /\ trav[1].sawW = 1
    /\ ~CheckForInterruptNoAssert(currentClient[1])

\* ---- C22 -------------------------------------------------------------
\* C22: a try_lock construction ends (unless the process aborts first); one
\* that ends while the mutex is held ends with ok false, at or after its
\* deadline, the mutex untouched and not the caller's through this try_lock;
\* one that ends with ok true has taken the free mutex, and the caller holds
\* it for as long as the try_lock lives, ~try_lock releasing it; a try_lock
\* with ok false releases nothing.
C22_TryLockReturns ==
    /\ \A t \in Threads : (pc[t] = "tryWait") ~> (pc[t] # "tryWait" \/ Aborted)
    /\ [](\A t \in Threads : pc[t] = "tryHeld" => mx_lock = t)
    /\ [][\A t \in Threads :
            /\ (pc[t] = "tryWait" /\ pc'[t] # "tryWait" /\ mx_lock # 0) =>
                  /\ pc'[t] = "tryFailed"
                  /\ ~Later(deadline[t], now)
                  /\ mx_lock' = mx_lock
            /\ (pc[t] = "tryWait" /\ pc'[t] # "tryWait" /\ mx_lock = 0) =>
                  /\ pc'[t] = "tryHeld"
                  /\ mx_lock' = t
            /\ (pc[t] = "tryHeld" /\ pc'[t] # "tryHeld") => mx_lock' = 0
            /\ (pc[t] = "tryFailed" /\ pc'[t] # "tryFailed") =>
                  mx_lock' = mx_lock]_vars

\* thread 1's try_lock has ended with ok false, a second after it began,
\* while thread 2 holds the mutex
C22_Witness ==
    /\ pc[1] = "tryFailed"
    /\ mx_lock = 2
    /\ pc[2] = "run"
    /\ deadline[1] = now
    /\ now.sec > 0

\* ---- C23 -------------------------------------------------------------
\* C23: isLocked() returns true if and only if some thread holds the
\* RecursiveMutex at the call, whether the caller or another thread.
C23_IsLockedBySomebody ==
    \A t \in Threads :
        mtxCall[t].op = "rm.isLocked" =>
            (mtxCall[t].res = "true" <=> mtxCall[t].held)

\* ---- C24 -------------------------------------------------------------
\* C24: a constructor that returns has called enter; ~Context, which calls
\* leave, runs only on a Context whose constructor called enter; and a
\* constructor that throws, so that no ~Context and no leave follow, has not
\* called enter.
C24_EnterLeavePaired ==
    \A c \in ClientIds :
        /\ ctxCall[c].kind = "constructed" => ctxCall[c].entered
        /\ ctxCall[c].kind = "destroyed" => ctxCall[c].entered
        /\ ctxCall[c].kind = "failed" => ~ctxCall[c].entered

\* ---- C27 -------------------------------------------------------------
\* the lock state of a thread whose open lock scopes are s, outermost first
RECURSIVE ScopesState(_)
ScopesState(s) ==
    IF s = <<>>
    THEN 0
    ELSE LET below == ScopesState(SubSeq(s, 1, Len(s) - 1))
         IN  IF s[Len(s)] = "writelock" THEN LockState(below)
                                        ELSE LockSharedState(below)

\* the ReadContext constructor of thread t has ended
RcSucceeded(t) == pc[t] = "rcDone" /\ ctxErr[currentClient[t]] = "none"
RcFailed(t) == pc[t] = "rcDone" /\ ctxErr[currentClient[t]] # "none"

\* C27: a ReadContext construction that returns leaves the thread with the
\* locks of the scopes it had open before plus exactly one readlock (the
\* ReadContext's own, innermost) and no writelock; one that throws (15928,
\* out of disk space, staleness, 10057, in any of the three branches) leaves
\* the thread with exactly the locks of the scopes it had open before; and a
\* thread about to wait for the write lock inside the constructor holds no
\* lock at all, the ReadContext's read lock included.
C27_ReadContextLockBalanced ==
    \A t \in Threads :
        /\ RcSucceeded(t)
             => /\ scopes[t] # <<>>
                /\ scopes[t][Len(scopes[t])] = "ReadContext"
                /\ lockState[t] =
                     LockSharedState(ScopesState(SubSeq(scopes[t], 1, Len(scopes[t]) - 1)))
                /\ lockState[t] # 0
        /\ RcFailed(t) => lockState[t] = ScopesState(scopes[t])
        /\ pc[t] \in {"rcDone", "rcWriteLock"}
             => /\ t \in dbReaders <=> lockState[t] < 0
                /\ dbWriter = t <=> lockState[t] > 0
        /\ pc[t] = "rcWriteLock" => lockState[t] = 0 /\ scopes[t] = <<>>

\* the fallback has released its read lock and waits for the write lock,
\* which the other thread's read lock keeps from it
C27_Witness ==
    /\ pc[1] = "rcWriteLock"
    /\ lockState[1] = 0
    /\ 2 \in dbReaders
    /\ ~ENABLED RcWriteLock(1)

\* ---- C26 -------------------------------------------------------------
\* thread t is inside ~CurOp, called by delete _curOp in ~Client, at the
\* scoped_lock on the registry mutex
DtorDeletesNested(t) == pc[t] = "dtorCurOpLock"

\* C26: outside global shutdown ~Client never waits, in the ~CurOp that its
\* delete _curOp runs, for the registry mutex that ~Client itself holds at
\* that point: whether the current CurOp has a parent or not, the destructor
\* can go on to its end and release the mutex.
C26_ClientDtorCompletes ==
    \A t \in Threads : DtorDeletesNested(t) => clientsMutex # t

\* ---- C25 -------------------------------------------------------------
\* the Client whose pointer thread t's kill has read from the registry and
\* is reading _curOp and the parent links of (0: none)
KillVisits(t) ==
    IF pc[t] = "killScan" THEN NextClient(killIter[t])
    ELSE IF pc[t] = "killMark" THEN killK[t][1]
    ELSE 0

\* C25: a Client that kill visits while it holds the registry mutex has not
\* been destroyed, and the chain kill walks from its current CurOp is made of
\* CurOps not yet destroyed, however kill interleaves with the end of nested
\* operations, shutdown() and ~Client.
C25_TraversalSeesLiveObjects ==
    \A t \in Threads :
        KillVisits(t) # 0
          => /\ clientsMutex = t
             /\ life[KillVisits(t)] # "destroyed"
             /\ _curOp[KillVisits(t)] # <<>>

====
